---- MODULE Spec2Model ----
(***************************************************************************)
(* Model of the @rpappa/create scaffolding CLI (src/src/cli.js).           *)
(*                                                                         *)
(* The CLI is one top-level-await script: it resolves four decisions       *)
(* (non-empty-directory confirmation, workspace path, monorepo, scope),    *)
(* ensures a root manifest, and then runs one of three flows, every        *)
(* external command going through runCommand.  Strings whose characters    *)
(* matter (the scope) are sequences of characters; the other strings are   *)
(* TLA+ strings.                                                           *)
(***************************************************************************)
EXTENDS Integers, Sequences, FiniteSets, TLC

(***************************************************************************)
(* Bounds.                                                                 *)
(***************************************************************************)
\* longest scope text (flag value or prompt answer) given to getScope alone
MaxScopeInput == 3
\* child processes exit with a code in 0..MaxExitCode
MaxExitCode == 2
\* most lines of a lint configuration given to its patch alone
MaxLintLines == 3
\* number of entries of a directory given to copyFiles
MaxDirEntries == 3
\* number of times patchTsconfigJson is applied to one file
MaxPatchRuns == 2

\* the characters a scope text is made of: the marker, a letter, whitespace
Chars == {"@", "a", " "}
Texts(n) == UNION {[1..k -> Chars] : k \in 0..n}
ScopeInputs == Texts(MaxScopeInput)
\* the scope texts of a whole run, one of each kind getScope tells apart:
\* empty, only whitespace, without the marker, with the marker
ScopeTexts == {<<>>, <<" ">>, <<"a">>, <<"@", "a">>}
\* workspace paths given by flag or typed at the prompt ("" = none)
WorkspacePaths == {"", "packages/newLib"}
\* license field values of the root manifest ("" = absent)
Licenses == {"", "MIT"}
ExitCodes == 0..MaxExitCode

\* exit code of the node process when the top-level await rejects
UncaughtExitCode == 1

VARIABLES
    YES_ARG,               \* --yes / -y present
    MONOREPO_ARG,          \* --monorepo / -m present
    CREATE_WORKSPACE_ARG,  \* value of --workspace= / -w, "" if absent
    SCOPE_ARG,             \* value of --scope=, <<>> if absent
    dirEmpty,              \* file system: the working directory has no entry
    manifestExists,        \* file system: ./package.json exists
    pc,                    \* position of the top-level script
    isEmpty,               \* const isEmpty
    createWorkspace,       \* const createWorkspace
    isCreatingWorkspace,   \* const isCreatingWorkspace
    isMonorepo,            \* const isMonorepo
    scope,                 \* const scope
    rootLicense,           \* const rootLicense
    todo,                  \* steps of the current block still to be issued
    child,                 \* TRUE while a child process of runCommand runs
    log,                   \* every step issued so far, with its outcome
    asked,                 \* the prompts shown so far, with their answers
    messages,              \* console.warn / console.error lines written
    accessOk,              \* what fs.access saw in checkPackageJson
    ensureCalls,           \* number of calls of checkPackageJson
    exited,                \* the process has terminated
    exitCode,              \* its exit code, once exited
    error,                 \* the error that terminated it, "" if none
    promise,               \* the promise of the newest runCommand call
    wired,                 \* the pipes of its child that are still attached
    events,                \* the events its child has emitted, in order
    disk,                  \* the configuration documents this run has put on disk
    contents,              \* the text the newest fs.readFile returned
    listing,               \* the entries allFiles found in the directory being copied
    copies,                \* the fs.copyFile calls of the copyFiles call under way
    target                 \* the destination names they have written, with their source

vars == <<YES_ARG, MONOREPO_ARG, CREATE_WORKSPACE_ARG, SCOPE_ARG, dirEmpty,
          manifestExists, pc, isEmpty, createWorkspace, isCreatingWorkspace,
          isMonorepo, scope, rootLicense, todo, child, log, asked, messages,
          accessOk, ensureCalls, exited, exitCode, error, promise, wired,
          events, disk, contents, listing, copies, target>>

flags == <<YES_ARG, MONOREPO_ARG, CREATE_WORKSPACE_ARG, SCOPE_ARG>>
decisions == <<isEmpty, createWorkspace, isCreatingWorkspace, isMonorepo, scope>>
runner == <<promise, wired, events>>
copying == <<listing, copies, target>>
files == <<disk, contents, copying>>

(***************************************************************************)
(* Strings as sequences of characters.                                     *)
(***************************************************************************)
\* String.prototype.startsWith("@")
StartsWithAt(s) == Len(s) > 0 /\ s[1] = "@"

RECURSIVE TrimStart(_)
TrimStart(s) == IF s # <<>> /\ Head(s) = " " THEN TrimStart(Tail(s)) ELSE s

RECURSIVE TrimEnd(_)
TrimEnd(s) ==
    IF s # <<>> /\ s[Len(s)] = " " THEN TrimEnd(SubSeq(s, 1, Len(s) - 1)) ELSE s

\* String.prototype.trim()
Trim(s) == TrimEnd(TrimStart(s))

(***************************************************************************)
(* Steps.  A step is one awaited operation of the script: an external      *)
(* command given to runCommand ("cmd"), or a file-system call that reads   *)
(* ("read") or changes ("write") the disk.  fn is the function of cli.js   *)
(* that issues it and dir the package directory it works for.  A command   *)
(* is `npm <op>` with its workspace selector ws (the text after "-w ",     *)
(* "" when the command has none), and its operands key / val / scope /     *)
(* yes; a file-system call carries the workspace argument of the           *)
(* preparePackage call it belongs to.                                      *)
(***************************************************************************)
Step(kind, fn, dir, op, ws, key, val, sc, yes) ==
    [kind |-> kind, fn |-> fn, dir |-> dir, op |-> op, ws |-> ws,
     key |-> key, val |-> val, scope |-> sc, yes |-> yes]

\* `npm init [-y] [-w <ws>] [--scope=<sc>]`
NpmInit(fn, dir, ws, sc, yes) == Step("cmd", fn, dir, "init", ws, "", "", sc, yes)
\* `npm [-w <ws>] pkg set <key>=<val>`
NpmPkgSet(fn, dir, ws, key, val) ==
    Step("cmd", fn, dir, "pkg set", ws, key, val, <<>>, FALSE)
\* `npm install [-w <ws>] <flags> <packages>`
NpmInstall(fn, dir, ws, flagsText, packages) ==
    Step("cmd", fn, dir, "install", ws, flagsText, packages, <<>>, FALSE)
\* `npm [-w <ws>] run <script>`
NpmRun(fn, dir, ws, script) ==
    Step("cmd", fn, dir, "run", ws, script, "", <<>>, FALSE)
\* fs call <op> on <file> of directory dir, from / with <val>
ReadFile(fn, dir, ws, file) == Step("read", fn, dir, "readFile", ws, file, "", <<>>, FALSE)
WriteFile(fn, dir, ws, op, file, val, sc) ==
    Step("write", fn, dir, op, ws, file, val, sc, FALSE)

\* patchPackageJson(workspace)
patchPackageJson(fn, dir, workspace) == NpmPkgSet(fn, dir, workspace, "type", "module")

Opt(cond, steps) == IF cond THEN steps ELSE <<>>

\* process.cwd()
Cwd == "."

(***************************************************************************)
(* checkPackageJson: the commands of the try block (after fs.access        *)
(* succeeded) and of the catch block.                                      *)
(***************************************************************************)
checkPackageJsonTry == <<patchPackageJson("checkPackageJson", Cwd, "")>>

checkPackageJsonCatch(sc, yesArg) ==
    << NpmInit("checkPackageJson", Cwd, "", sc, yesArg),
       patchPackageJson("checkPackageJson", Cwd, "") >>

(***************************************************************************)
(* The root block: template-files/root and the shared tooling.             *)
(***************************************************************************)
RootSetup(creatingWorkspace) ==
    Opt(~creatingWorkspace,
        << WriteFile("root", Cwd, "", "copyFiles", "*", "template-files/root", <<>>),
           NpmInstall("root", Cwd, "", "--save-dev", "eslint plugins and configs"),
           NpmInstall("root", Cwd, "", "--save-dev --save-exact", "prettier"),
           NpmInstall("root", Cwd, "", "--save-dev", "@sindresorhus/tsconfig") >>)

(***************************************************************************)
(* preparePackage({directory, workspace, sourceFile, testFile, license}),  *)
(* with the script's scope.                                                *)
(***************************************************************************)
PatchTsconfig(directory, workspace, sc) ==
    IF workspace # ""
    THEN << ReadFile("preparePackage", directory, workspace, "tsconfig.build.json"),
            WriteFile("preparePackage", directory, workspace, "patchTsconfigJson",
                      "tsconfig.build.json", "skipSetup=false", <<>>) >>
         \o Opt(sc # <<>>,
            << ReadFile("preparePackage", directory, workspace, "tsconfig.json"),
               WriteFile("preparePackage", directory, workspace, "patchTsconfigJson",
                         "tsconfig.json", "skipSetup=true", sc) >>)
    ELSE << ReadFile("preparePackage", directory, workspace, "tsconfig.json"),
            WriteFile("preparePackage", directory, workspace, "patchTsconfigJson",
                      "tsconfig.json", "skipSetup=false", sc) >>

preparePackageMutantOrder(directory, workspace, sourceFile, testFile, license, sc) ==
    LET P == "preparePackage" IN
    Opt(license # "", <<NpmPkgSet(P, directory, workspace, "license", license)>>)
    \o << NpmInstall(P, directory, workspace, "--save-dev", "typescript eslint"),
          NpmInstall(P, directory, workspace, "--save-dev", "vitest vite-tsconfig-paths"),
          WriteFile(P, directory, workspace, "copyFiles", "*", "template-files/common", <<>>) >>
    \o Opt(workspace # "",
           <<WriteFile(P, directory, workspace, "copyFiles", "*", "template-files/package", <<>>)>>)
    \o << WriteFile(P, directory, workspace, "mkdir", "src", "", <<>>),
          WriteFile(P, directory, workspace, "copyFile", "src/index.ts", sourceFile, <<>>),
          WriteFile(P, directory, workspace, "mkdir", "test", "", <<>>),
          WriteFile(P, directory, workspace, "copyFile", "test/index.test.ts", testFile, <<>>),
          ReadFile(P, directory, workspace, "src/index.ts"),
          WriteFile(P, directory, workspace, "writeFile", "src/index.ts", "{{SCOPEPREFIX}}", sc) >>
    \o PatchTsconfig(directory, workspace, sc)
    \o << NpmPkgSet(P, directory, workspace, "scripts.lint", "npx eslint ."),
          NpmPkgSet(P, directory, workspace, "scripts.build",
                    IF workspace # "" THEN "tsc --project tsconfig.build.json" ELSE "tsc"),
          NpmPkgSet(P, directory, workspace, "scripts.test", "vitest run"),
          NpmPkgSet(P, directory, workspace, "scripts.test:watch", "vitest watch"),
          NpmPkgSet(P, directory, workspace, "main", "dist/src/index.js"),
          NpmPkgSet(P, directory, workspace, "types", "dist/src/index.d.ts"),
          patchPackageJson(P, directory, workspace),
          NpmRun(P, directory, workspace, "build"),
          NpmRun(P, directory, workspace, "lint"),
          NpmRun(P, directory, workspace, "test") >>

preparePackage(directory, workspace, sourceFile, testFile, license, sc) ==
    LET P == "preparePackage" IN
    Opt(license # "", <<NpmPkgSet(P, directory, workspace, "license", license)>>)
    \o << NpmInstall(P, directory, workspace, "--save-dev", "typescript eslint"),
          NpmInstall(P, directory, workspace, "--save-dev", "vitest vite-tsconfig-paths"),
          WriteFile(P, directory, workspace, "copyFiles", "*", "template-files/common", <<>>) >>
    \o Opt(workspace # "",
           <<WriteFile(P, directory, workspace, "copyFiles", "*", "template-files/package", <<>>)>>)
    \o << WriteFile(P, directory, workspace, "mkdir", "src", "", <<>>),
          WriteFile(P, directory, workspace, "copyFile", "src/index.ts", sourceFile, <<>>),
          WriteFile(P, directory, workspace, "mkdir", "test", "", <<>>),
          WriteFile(P, directory, workspace, "copyFile", "test/index.test.ts", testFile, <<>>),
          ReadFile(P, directory, workspace, "src/index.ts"),
          WriteFile(P, directory, workspace, "writeFile", "src/index.ts", "{{SCOPEPREFIX}}", sc) >>
    \o PatchTsconfig(directory, workspace, sc)
    \o << NpmPkgSet(P, directory, workspace, "scripts.lint", "npx eslint ."),
          NpmPkgSet(P, directory, workspace, "scripts.build",
                    IF workspace # "" THEN "tsc --project tsconfig.build.json" ELSE "tsc"),
          NpmPkgSet(P, directory, workspace, "scripts.test", "vitest run"),
          NpmPkgSet(P, directory, workspace, "scripts.test:watch", "vitest watch"),
          NpmPkgSet(P, directory, workspace, "main", "dist/src/index.js"),
          NpmPkgSet(P, directory, workspace, "types", "dist/src/index.d.ts"),
          patchPackageJson(P, directory, workspace),
          NpmRun(P, directory, workspace, "lint"),
          NpmRun(P, directory, workspace, "build"),
          NpmRun(P, directory, workspace, "test") >>

(***************************************************************************)
(* The three flows (the if / else if / else after rootLicense).            *)
(***************************************************************************)
libWorkspace == "./packages/lib"
appWorkspace == "./packages/app"
libDir == "packages/lib"
appDir == "packages/app"

MonorepoTailMutantRunsFirst ==
    << NpmRun("flow", Cwd, "", "build"),
       NpmRun("flow", Cwd, "", "lint"),
       NpmRun("flow", Cwd, "", "test"),
       NpmPkgSet("flow", Cwd, "", "scripts.build", "npm run build -ws"),
       NpmPkgSet("flow", Cwd, "", "scripts.lint", "npm run lint -ws"),
       NpmPkgSet("flow", Cwd, "", "scripts.test", "npm run test -ws") >>

MonorepoTail ==
    << NpmPkgSet("flow", Cwd, "", "scripts.build", "npm run build -ws"),
       NpmPkgSet("flow", Cwd, "", "scripts.lint", "npm run lint -ws"),
       NpmPkgSet("flow", Cwd, "", "scripts.test", "npm run test -ws"),
       NpmRun("flow", Cwd, "", "build"),
       NpmRun("flow", Cwd, "", "lint"),
       NpmRun("flow", Cwd, "", "test") >>

MonorepoHead(sc) ==
    << ReadFile("patchEslintImportInternal", Cwd, "", ".eslintrc.cjs"),
       WriteFile("patchEslintImportInternal", Cwd, "", "writeFile", ".eslintrc.cjs",
                 "import/internal-regex", sc),
       NpmInstall("flow", Cwd, "", "--save-dev", "typescript @sindresorhus/tsconfig") >>

MonorepoFlowMutantInterleaved(sc, license) ==
    MonorepoHead(sc)
    \o << NpmInit("flow", libDir, libWorkspace, sc, TRUE),
          NpmInit("flow", appDir, appWorkspace, sc, TRUE) >>
    \o preparePackage(libDir, libWorkspace, "src/index.ts", "test/index.test.ts", license, sc)
    \o preparePackage(appDir, appWorkspace, "src/main.ts", "test/main.test.ts", license, sc)
    \o MonorepoTail

MonorepoFlow(sc, license) ==
    MonorepoHead(sc)
    \o << NpmInit("flow", libDir, libWorkspace, sc, TRUE) >>
    \o preparePackage(libDir, libWorkspace, "src/index.ts", "test/index.test.ts", license, sc)
    \o << NpmInit("flow", appDir, appWorkspace, sc, TRUE) >>
    \o preparePackage(appDir, appWorkspace, "src/main.ts", "test/main.test.ts", license, sc)
    \o MonorepoTail

AddWorkspaceFlowMutantRunsFirst(workspacePath, sc, license) ==
    << NpmInit("flow", workspacePath, workspacePath, sc, TRUE),
       NpmRun("flow", Cwd, "", "build"),
       NpmRun("flow", Cwd, "", "lint"),
       NpmRun("flow", Cwd, "", "test") >>
    \o preparePackage(workspacePath, workspacePath, "src/index.ts", "test/index.test.ts",
                      license, sc)

AddWorkspaceFlow(workspacePath, sc, license) ==
    << NpmInit("flow", workspacePath, workspacePath, sc, TRUE) >>
    \o preparePackage(workspacePath, workspacePath, "src/index.ts", "test/index.test.ts",
                      license, sc)
    \o << NpmRun("flow", Cwd, "", "build"),
          NpmRun("flow", Cwd, "", "lint"),
          NpmRun("flow", Cwd, "", "test") >>

SingleFlowMutantWorkspace(sc, license) ==
    preparePackage(Cwd, "-w .", "src/index.ts", "test/index.test.ts", license, sc)

SingleFlow(sc, license) ==
    preparePackage(Cwd, "", "src/index.ts", "test/index.test.ts", license, sc)

FlowSteps(monorepo, creatingWorkspace, workspacePath, sc, license) ==
    IF monorepo THEN MonorepoFlow(sc, license)
    ELSE IF creatingWorkspace THEN AddWorkspaceFlow(workspacePath, sc, license)
    ELSE SingleFlow(sc, license)

(***************************************************************************)
(* The four decisions.  Each function is an operator of its arguments,    *)
(* the flags and the answer the user would give if the prompt is shown;    *)
(* prompted tells whether the prompt is shown.  A cancelled prompt gives   *)
(* undefined, which the code treats like FALSE / the empty string.         *)
(***************************************************************************)
\* checkEmptyDirectory(), answer: the confirm prompt's value
checkEmptyDirectoryMutantNoExit(empty, workspaceArg, answer) ==
    [prompted |-> ~empty /\ workspaceArg = "",
     exit     |-> FALSE,
     value    |-> empty]

checkEmptyDirectory(empty, workspaceArg, answer) ==
    IF ~empty /\ workspaceArg = ""
    THEN [prompted |-> TRUE, exit |-> ~answer, value |-> empty]
    ELSE [prompted |-> FALSE, exit |-> FALSE, value |-> empty]

\* checkCreateWorkspace(isEmpty), manifest: fs.access("./package.json") succeeds
checkCreateWorkspaceMutantNoAccess(empty, workspaceArg, manifest, answer) ==
    IF empty /\ workspaceArg # ""
    THEN [prompted |-> FALSE, value |-> "",
          warn |-> {"Ignoring --workspace flag since current directory is empty"}]
    ELSE IF workspaceArg # ""
    THEN [prompted |-> FALSE, value |-> workspaceArg, warn |-> {}]
    ELSE [prompted |-> TRUE, value |-> answer, warn |-> {}]

checkCreateWorkspace(empty, workspaceArg, manifest, answer) ==
    IF empty /\ workspaceArg # ""
    THEN [prompted |-> FALSE, value |-> "",
          warn |-> {"Ignoring --workspace flag since current directory is empty"}]
    ELSE IF ~manifest
    THEN [prompted |-> FALSE, value |-> "",
          warn |-> IF workspaceArg # ""
                   THEN {"Ignoring --workspace flag since no package.json found"}
                   ELSE {}]
    ELSE IF workspaceArg # ""
    THEN [prompted |-> FALSE, value |-> workspaceArg, warn |-> {}]
    ELSE [prompted |-> TRUE, value |-> answer, warn |-> {}]

\* checkCreateMonorepo(arg): the parameter is named isCreatingWorkspace in the
\* source and the flow passes !isCreatingWorkspace for it
checkCreateMonorepoMutantAlwaysAsk(arg, monorepoArg, answer) ==
    IF monorepoArg
    THEN [prompted |-> FALSE, value |-> TRUE, warn |-> {}]
    ELSE [prompted |-> TRUE, value |-> answer, warn |-> {}]

checkCreateMonorepoMutantAlwaysWarn(arg, monorepoArg, answer) ==
    IF ~arg
    THEN [prompted |-> FALSE, value |-> FALSE,
          warn |-> {"Ignoring --monorepo flag since creating a workspace"}]
    ELSE IF monorepoArg
    THEN [prompted |-> FALSE, value |-> TRUE, warn |-> {}]
    ELSE [prompted |-> TRUE, value |-> answer, warn |-> {}]

checkCreateMonorepo(arg, monorepoArg, answer) ==
    IF ~arg
    THEN [prompted |-> FALSE, value |-> FALSE,
          warn |-> IF monorepoArg
                   THEN {"Ignoring --monorepo flag since creating a workspace"}
                   ELSE {}]
    ELSE IF monorepoArg
    THEN [prompted |-> FALSE, value |-> TRUE, warn |-> {}]
    ELSE [prompted |-> TRUE, value |-> answer, warn |-> {}]

\* getScope(isOptional), answer: the text prompt's value
getScopeMutantNoTrim(isOptional, scopeArg, answer) ==
    IF scopeArg # <<>>
    THEN [prompted |-> FALSE, threw |-> FALSE,
          value |-> IF StartsWithAt(scopeArg) THEN scopeArg ELSE <<"@">> \o scopeArg]
    ELSE IF answer = <<>>
    THEN [prompted |-> TRUE, threw |-> ~isOptional, value |-> <<>>]
    ELSE IF StartsWithAt(answer)
    THEN [prompted |-> TRUE, threw |-> FALSE, value |-> answer]
    ELSE [prompted |-> TRUE, threw |-> FALSE, value |-> <<"@">> \o answer]

getScopeMutantIgnoreFlag(isOptional, scopeArg, answer) ==
    IF answer = <<>>
    THEN [prompted |-> TRUE, threw |-> ~isOptional, value |-> <<>>]
    ELSE IF Trim(answer) = <<>> \/ StartsWithAt(answer)
    THEN [prompted |-> TRUE, threw |-> FALSE, value |-> Trim(answer)]
    ELSE [prompted |-> TRUE, threw |-> FALSE, value |-> <<"@">> \o answer]

getScope(isOptional, scopeArg, answer) ==
    IF scopeArg # <<>>
    THEN [prompted |-> FALSE, threw |-> FALSE,
          value |-> IF StartsWithAt(scopeArg) THEN scopeArg ELSE <<"@">> \o scopeArg]
    ELSE IF answer = <<>>
    THEN [prompted |-> TRUE, threw |-> ~isOptional, value |-> <<>>]
    ELSE IF Trim(answer) = <<>> \/ StartsWithAt(answer)
    THEN [prompted |-> TRUE, threw |-> FALSE, value |-> Trim(answer)]
    ELSE [prompted |-> TRUE, threw |-> FALSE, value |-> <<"@">> \o answer]

\* the argument the flow gives to getScope
ScopeIsOptionalMutantInverted(monorepo, creatingWorkspace) ==
    monorepo \/ creatingWorkspace

ScopeIsOptional(monorepo, creatingWorkspace) == ~monorepo /\ ~creatingWorkspace

(***************************************************************************)
(* runCommand: the promise is settled by the first resolve / reject only.  *)
(* A promise is its state and, once rejected, the exit code its error      *)
(* carries (NoCode for the error of an "error" event).                     *)
(***************************************************************************)
NoCode == -1
NoPromise == [state |-> "none", code |-> NoCode]
Pending == [state |-> "pending", code |-> NoCode]
Resolve(p) == IF p.state = "pending" THEN [state |-> "resolved", code |-> NoCode] ELSE p
Reject(p, code) == IF p.state = "pending" THEN [state |-> "rejected", code |-> code] ELSE p

\* child.on("exit", (code) => ...): no return after resolve()
OnExitMutantRejectFirst(p, code) ==
    IF code = 0 THEN Resolve(Reject(p, code)) ELSE Reject(p, code)

OnExit(p, code) == Reject(IF code = 0 THEN Resolve(p) ELSE p, code)
\* child.on("error", ...)
OnError(p) == Reject(p, NoCode)

\* child.stdout -> process.stdout, child.stderr -> process.stderr,
\* process.stdin -> child.stdin
Pipes == {"stdout", "stderr", "stdin"}
\* destroyPipes(): destroy() on the three streams pipe() returned
destroyPipes(w) == w \ Pipes
\* the pipes left attached by the "exit" handler and by the "error" handler
PipesOnExitMutantLeak(w, code) == IF code = 0 THEN destroyPipes(w) ELSE w

PipesOnExit(w, code) == destroyPipes(IF code = 0 THEN destroyPipes(w) ELSE w)
PipesOnError(w) == destroyPipes(w)

(***************************************************************************)
(* The configuration documents.  A tsconfig document is the three values   *)
(* the patches set: compilerOptions.outDir and include (<<>> when the key  *)
(* is absent) and the entries of compilerOptions.paths.  The lint          *)
(* configuration is its sequence of lines, a line being its text and, in   *)
(* the rule line the patch writes, the scope put into the text.            *)
(***************************************************************************)
Patch(path, key, value) == [path |-> path, key |-> key, value |-> value]

ModifyMutantAppend(doc, patch) ==
    CASE patch.path = "compilerOptions.outDir" -> [doc EXCEPT !.outDir = patch.value]
      [] patch.path = "include" -> [doc EXCEPT !.include = @ \o patch.value]
      [] patch.path = "compilerOptions.paths" ->
           [doc EXCEPT !.paths = {p \in @ : p.key # patch.key}
                                 \cup {[key |-> patch.key, value |-> patch.value]}]

\* jsonc.applyEdits(doc, jsonc.modify(doc, patch.path, patch.value, ...))
Modify(doc, patch) ==
    CASE patch.path = "compilerOptions.outDir" -> [doc EXCEPT !.outDir = patch.value]
      [] patch.path = "include" -> [doc EXCEPT !.include = patch.value]
      [] patch.path = "compilerOptions.paths" ->
           [doc EXCEPT !.paths = {p \in @ : p.key # patch.key}
                                 \cup {[key |-> patch.key, value |-> patch.value]}]

RECURSIVE ApplyPatches(_, _)
ApplyPatches(doc, patches) ==
    IF patches = <<>> THEN doc
    ELSE ApplyPatches(Modify(doc, Head(patches)), Tail(patches))

\* patchTsconfigJson(original, scope, skipSetup); sc = <<>> for no scope
patchTsconfigJsonMutantAlwaysSetup(original, sc, skipSetup) ==
    ApplyPatches(original,
        << Patch("compilerOptions.outDir", <<>>, <<"dist">>),
           Patch("include", <<>>, <<"src">>) >>
        \o Opt(sc # <<>>,
               <<Patch("compilerOptions.paths", sc \o <<"/", "*">>, <<"../*/src">>)>>))

patchTsconfigJson(original, sc, skipSetup) ==
    ApplyPatches(original,
        Opt(~skipSetup,
            << Patch("compilerOptions.outDir", <<>>, <<"dist">>),
               Patch("include", <<>>, <<"src">>) >>)
        \o Opt(sc # <<>>,
               <<Patch("compilerOptions.paths", sc \o <<"/", "*">>, <<"../*/src">>)>>))

Line(text, sc) == [text |-> text, scope |-> sc]
\* the commented-out line the patch looks for, and the line it puts there
CommentedRule == Line("// \"import/internal-regex\": \"^@scope/*\",", <<>>)
ActiveRule(sc) == Line("\"import/internal-regex\": \"^${scope}/*\",", sc)
OtherLine == Line("root: true,", <<>>)

\* String.prototype.replace(pattern, replacement) with a string pattern
RECURSIVE ReplaceMutantAll(_, _, _)
ReplaceMutantAll(text, pattern, replacement) ==
    IF text = <<>> THEN <<>>
    ELSE <<IF Head(text) = pattern THEN replacement ELSE Head(text)>>
         \o ReplaceMutantAll(Tail(text), pattern, replacement)

RECURSIVE Replace(_, _, _)
Replace(text, pattern, replacement) ==
    IF text = <<>> THEN <<>>
    ELSE IF Head(text) = pattern THEN <<replacement>> \o Tail(text)
    ELSE <<Head(text)>> \o Replace(Tail(text), pattern, replacement)

\* const edited = eslintConfig.replace(...) of patchEslintImportInternal(scope)
EslintEdited(eslintConfig, sc) == Replace(eslintConfig, CommentedRule, ActiveRule(sc))

\* The template files are not part of the sources; these are the documents
\* the reads of the script take for granted after its copies: a tsconfig
\* that sets none of the patched keys, and a lint configuration that holds
\* the commented-out line once.
TemplateTsconfig == [outDir |-> <<>>, include |-> <<>>, paths |-> {}, extends |-> ""]
TemplateEslintrc == <<OtherLine, CommentedRule, OtherLine>>
File(dir, name) == <<dir, name>>
Put(d, file, doc) ==
    [f \in DOMAIN d \cup {file} |-> IF f = file THEN doc ELSE d[f]]
\* copyFiles(template-files/<which>, dir)
Copied(d, dir, template) ==
    CASE template = "template-files/root" ->
           Put(d, File(dir, ".eslintrc.cjs"), TemplateEslintrc)
      [] template = "template-files/common" ->
           Put(d, File(dir, "tsconfig.json"), TemplateTsconfig)
      [] template = "template-files/package" ->
           Put(Put(d, File(dir, "tsconfig.json"), TemplateTsconfig),
               File(dir, "tsconfig.build.json"), TemplateTsconfig)
      [] OTHER -> d
\* the files whose text the model keeps
Tracked(st) == st.key \in {".eslintrc.cjs", "tsconfig.json", "tsconfig.build.json"}
\* fs.readFile of step st
ReadText(d, st) == IF File(st.dir, st.key) \in DOMAIN d THEN d[File(st.dir, st.key)] ELSE <<>>
\* the disk after the write of step st, text being what was read before it
Written(d, st, text) ==
    CASE st.op = "copyFiles" -> Copied(d, st.dir, st.val)
      [] st.op = "patchTsconfigJson" ->
           Put(d, File(st.dir, st.key),
               patchTsconfigJson(text, st.scope, st.val = "skipSetup=true"))
      [] st.fn = "patchEslintImportInternal" /\ st.op = "writeFile" ->
           Put(d, File(st.dir, st.key), EslintEdited(text, st.scope))
      [] OTHER -> d

\* package.json of a directory as the set of fields npm has been told to set
Manifest(dir) == File(dir, "package.json")
Fields(d, file) == IF file \in DOMAIN d THEN d[file] ELSE {}
\* npm pkg set key=value, last write of a key wins
SetField(d, file, key, value) ==
    Put(d, file, {f \in Fields(d, file) : f.key # key} \cup {[key |-> key, val |-> value]})
\* the disk after the npm command of step st has exited with code 0
Ran(d, st) ==
    CASE st.op = "pkg set" -> SetField(d, Manifest(st.dir), st.key, st.val)
      [] st.op = "init" -> Put(d, Manifest(st.dir), Fields(d, Manifest(st.dir)))
      [] OTHER -> d

\* the disk after the npm commands among steps have all exited with code 0
RECURSIVE RanAll(_, _)
RanAll(d, steps) ==
    IF steps = <<>> THEN d ELSE RanAll(Ran(d, Head(steps)), Tail(steps))

(***************************************************************************)
(* The order of the top-level script.                                      *)
(***************************************************************************)
FlowOrderMutantNoEnsure ==
    << "EmptyCheck", "WorkspaceCheck", "MonorepoCheck", "ScopeResolve",
       "RootFiles", "ReadLicense", "SelectFlow", "Finish" >>

FlowOrderMutantLateLicense ==
    << "EmptyCheck", "WorkspaceCheck", "MonorepoCheck", "ScopeResolve",
       "ManifestEnsure", "RootFiles", "SelectFlow", "ReadLicense", "Finish" >>

FlowOrderMutantLateScope ==
    << "EmptyCheck", "WorkspaceCheck", "MonorepoCheck", "ManifestEnsure",
       "ScopeResolve", "RootFiles", "ReadLicense", "SelectFlow", "Finish" >>

FlowOrderMutantRootFirst ==
    << "EmptyCheck", "WorkspaceCheck", "MonorepoCheck", "ScopeResolve",
       "RootFiles", "ManifestEnsure", "ReadLicense", "SelectFlow", "Finish" >>

FlowOrder ==
    << "EmptyCheck", "WorkspaceCheck", "MonorepoCheck", "ScopeResolve",
       "ManifestEnsure", "RootFiles", "ReadLicense", "SelectFlow", "Finish" >>

\* the statement after the one at position p
After(p) ==
    LET i == CHOOSE k \in 1..Len(FlowOrder) : FlowOrder[k] = p
    IN  FlowOrder[i + 1]

\* the positions inside a block of awaited steps, and the statement the block
\* belongs to
RunPcs == {"EnsureTry", "EnsureCatch", "RootSetup", "Flow"}
Owner(p) ==
    CASE p \in {"EnsureTry", "EnsureCatch"} -> "ManifestEnsure"
      [] p = "RootSetup" -> "RootFiles"
      [] p = "Flow" -> "SelectFlow"

Asked(q, yes, text, chars) == [q |-> q, yes |-> yes, text |-> text, chars |-> chars]
Entry(step, result, code) == [step |-> step, result |-> result, code |-> code]

Init ==
    /\ YES_ARG \in BOOLEAN
    /\ MONOREPO_ARG \in BOOLEAN
    /\ CREATE_WORKSPACE_ARG \in WorkspacePaths
    /\ SCOPE_ARG \in ScopeTexts
    /\ dirEmpty \in BOOLEAN
    /\ manifestExists \in BOOLEAN
    /\ dirEmpty => ~manifestExists
    /\ pc = "EmptyCheck"
    /\ isEmpty = FALSE
    /\ createWorkspace = ""
    /\ isCreatingWorkspace = FALSE
    /\ isMonorepo = FALSE
    /\ scope = <<>>
    /\ rootLicense = ""
    /\ todo = <<>>
    /\ child = FALSE
    /\ log = <<>>
    /\ asked = <<>>
    /\ messages = {}
    /\ accessOk = FALSE
    /\ ensureCalls = 0
    /\ exited = FALSE
    /\ exitCode = 0
    /\ error = ""
    /\ promise = NoPromise
    /\ wired = {}
    /\ events = <<>>
    /\ disk = <<>>
    /\ contents = <<>>
    /\ listing = <<>>
    /\ copies = <<>>
    /\ target = <<>>

\* process.exit(code) / the script ends / an error reaches the top level
Exit(code, err) ==
    /\ exited' = TRUE
    /\ exitCode' = code
    /\ error' = err

Running == UNCHANGED <<exited, exitCode, error>>

(***************************************************************************)
(* Begin flow: the decisions.                                              *)
(***************************************************************************)
CheckEmptyDirectory ==
    /\ ~exited /\ pc = "EmptyCheck"
    /\ \E answer \in BOOLEAN :
         LET r == checkEmptyDirectory(dirEmpty, CREATE_WORKSPACE_ARG, answer) IN
         /\ asked' = IF r.prompted
                     THEN Append(asked, Asked("empty", answer, "", <<>>))
                     ELSE asked
         /\ IF r.exit
            THEN /\ Exit(0, "")
                 /\ UNCHANGED <<pc, isEmpty>>
            ELSE /\ isEmpty' = r.value
                 /\ pc' = After("EmptyCheck")
                 /\ Running
    /\ UNCHANGED <<flags, runner, files, dirEmpty, manifestExists, createWorkspace,
                   isCreatingWorkspace, isMonorepo, scope, rootLicense, todo,
                   child, log, messages, accessOk, ensureCalls>>

CheckCreateWorkspace ==
    /\ ~exited /\ pc = "WorkspaceCheck"
    /\ \E answer \in WorkspacePaths :
         LET r == checkCreateWorkspace(isEmpty, CREATE_WORKSPACE_ARG,
                                       manifestExists, answer) IN
         /\ asked' = IF r.prompted
                     THEN Append(asked, Asked("workspace", FALSE, answer, <<>>))
                     ELSE asked
         /\ messages' = messages \cup r.warn
         /\ createWorkspace' = r.value
         /\ isCreatingWorkspace' = (r.value # "")
    /\ pc' = After("WorkspaceCheck")
    /\ Running
    /\ UNCHANGED <<flags, runner, files, dirEmpty, manifestExists, isEmpty, isMonorepo, scope,
                   rootLicense, todo, child, log, accessOk, ensureCalls>>

CheckCreateMonorepo ==
    /\ ~exited /\ pc = "MonorepoCheck"
    /\ \E answer \in BOOLEAN :
         LET r == checkCreateMonorepo(~isCreatingWorkspace, MONOREPO_ARG, answer) IN
         /\ asked' = IF r.prompted
                     THEN Append(asked, Asked("monorepo", answer, "", <<>>))
                     ELSE asked
         /\ messages' = messages \cup r.warn
         /\ isMonorepo' = r.value
    /\ pc' = After("MonorepoCheck")
    /\ Running
    /\ UNCHANGED <<flags, runner, files, dirEmpty, manifestExists, isEmpty, createWorkspace,
                   isCreatingWorkspace, scope, rootLicense, todo, child, log,
                   accessOk, ensureCalls>>

GetScopeFrom(answers) ==
    /\ ~exited /\ pc = "ScopeResolve"
    /\ \E answer \in answers :
         LET r == getScope(ScopeIsOptional(isMonorepo, isCreatingWorkspace),
                           SCOPE_ARG, answer) IN
         /\ asked' = IF r.prompted
                     THEN Append(asked, Asked("scope", FALSE, "", answer))
                     ELSE asked
         /\ IF r.threw
            THEN /\ Exit(UncaughtExitCode, "Scope is required")
                 /\ UNCHANGED <<pc, scope>>
            ELSE /\ scope' = r.value
                 /\ pc' = After("ScopeResolve")
                 /\ Running
    /\ UNCHANGED <<flags, runner, files, dirEmpty, manifestExists, isEmpty, createWorkspace,
                   isCreatingWorkspace, isMonorepo, rootLicense, todo, child,
                   log, messages, accessOk, ensureCalls>>

\* const scope = await getScope(!isMonorepo && !isCreatingWorkspace)
GetScope == GetScopeFrom(ScopeTexts)

(***************************************************************************)
(* An error thrown by an awaited step.  Inside the try block of            *)
(* checkPackageJson it is caught, whatever threw it, and the catch block   *)
(* runs; anywhere else it reaches the top level and ends the process.      *)
(***************************************************************************)
Throw(err) ==
    IF pc = "EnsureTry"
    THEN /\ pc' = "EnsureCatch"
         /\ todo' = checkPackageJsonCatch(scope, YES_ARG)
         /\ Running
    ELSE /\ Exit(UncaughtExitCode, err)
         /\ UNCHANGED <<pc, todo>>

SetLast(l, result, code) == [l EXCEPT ![Len(l)] = Entry(l[Len(l)].step, result, code)]

\* what a successful command leaves on disk
CreatesManifest(step) == step.op = "init" /\ step.ws = ""

(***************************************************************************)
(* runCommand(command): the child is started, and later its "exit" or      *)
(* "error" event settles the promise the script awaits.                    *)
(***************************************************************************)
StartCommandMutantNoAwait ==
    /\ ~exited /\ pc \in RunPcs
    /\ todo # <<>> /\ Head(todo).kind = "cmd"
    /\ child' = TRUE
    /\ promise' = Pending
    /\ wired' = Pipes
    /\ events' = <<>>
    /\ log' = Append(log, Entry(Head(todo), "running", -1))
    /\ todo' = IF child THEN Tail(todo) ELSE todo
    /\ Running
    /\ UNCHANGED <<flags, files, dirEmpty, manifestExists, pc, decisions, rootLicense,
                   asked, messages, accessOk, ensureCalls>>

StartCommand ==
    /\ ~exited /\ pc \in RunPcs /\ ~child
    /\ todo # <<>> /\ Head(todo).kind = "cmd"
    /\ child' = TRUE
    /\ promise' = Pending
    /\ wired' = Pipes
    /\ events' = <<>>
    /\ log' = Append(log, Entry(Head(todo), "running", -1))
    /\ Running
    /\ UNCHANGED <<flags, files, dirEmpty, manifestExists, pc, decisions, rootLicense,
                   todo, asked, messages, accessOk, ensureCalls>>

\* the child's "exit" event with this code, and its "error" event
ExitEvent(code) ==
    /\ promise' = OnExit(promise, code)
    /\ wired' = PipesOnExit(wired, code)
    /\ events' = Append(events, code)

ErrorEvent ==
    /\ promise' = OnError(promise)
    /\ wired' = PipesOnError(wired)
    /\ events' = Append(events, NoCode)

ChildExit ==
    /\ ~exited /\ child
    /\ \E code \in ExitCodes :
         /\ ExitEvent(code)
         /\ IF OnExit(promise, code).state = "resolved"
            THEN /\ log' = SetLast(log, "ok", code)
                 /\ todo' = Tail(todo)
                 /\ manifestExists' = (manifestExists \/ CreatesManifest(Head(todo)))
                 /\ dirEmpty' = FALSE
                 /\ disk' = Ran(disk, Head(todo))
                 /\ UNCHANGED pc
                 /\ Running
            ELSE /\ log' = SetLast(log, "failed", code)
                 /\ Throw("Process exited with code")
                 /\ UNCHANGED <<manifestExists, dirEmpty, disk>>
    /\ child' = FALSE
    /\ UNCHANGED <<flags, contents, copying, decisions, rootLicense, asked, messages,
                   accessOk, ensureCalls>>

ChildError ==
    /\ ~exited /\ child
    /\ ErrorEvent
    /\ OnError(promise).state = "rejected"
    /\ log' = SetLast(log, "failed", NoCode)
    /\ Throw("spawn error")
    /\ child' = FALSE
    /\ UNCHANGED <<flags, files, dirEmpty, manifestExists, decisions, rootLicense,
                   asked, messages, accessOk, ensureCalls>>

(***************************************************************************)
(* An awaited fs call of a block: it succeeds or rejects.                  *)
(***************************************************************************)
FsStep ==
    /\ ~exited /\ pc \in RunPcs /\ ~child
    /\ todo # <<>> /\ Head(todo).kind \in {"read", "write"}
    /\ \E ok \in BOOLEAN :
         IF ok
         THEN /\ Head(todo).kind = "read" /\ Tracked(Head(todo)) =>
                   File(Head(todo).dir, Head(todo).key) \in DOMAIN disk
              /\ log' = Append(log, Entry(Head(todo), "ok", -1))
              /\ todo' = Tail(todo)
              /\ dirEmpty' = (dirEmpty /\ Head(todo).kind = "read")
              /\ IF Head(todo).kind = "read"
                 THEN contents' = ReadText(disk, Head(todo)) /\ UNCHANGED disk
                 ELSE disk' = Written(disk, Head(todo), contents) /\ UNCHANGED contents
              /\ UNCHANGED pc
              /\ Running
         ELSE /\ log' = Append(log, Entry(Head(todo), "failed", -1))
              /\ Throw("io error")
              /\ UNCHANGED <<dirEmpty, disk, contents>>
    /\ UNCHANGED <<flags, runner, copying, manifestExists, decisions, rootLicense, child,
                   asked, messages, accessOk, ensureCalls>>

\* the last awaited step of a block has completed: on to the next statement
Return ==
    /\ ~exited /\ pc \in RunPcs /\ ~child /\ todo = <<>>
    /\ pc' = After(Owner(pc))
    /\ Running
    /\ UNCHANGED <<flags, runner, files, dirEmpty, manifestExists, decisions, rootLicense, todo,
                   child, log, asked, messages, accessOk, ensureCalls>>

(***************************************************************************)
(* checkPackageJson(scope): fs.access decides between the try block's      *)
(* patch and the catch block.                                              *)
(***************************************************************************)
CheckPackageJson ==
    /\ ~exited /\ pc = "ManifestEnsure"
    /\ ensureCalls' = ensureCalls + 1
    /\ accessOk' = manifestExists
    /\ IF manifestExists
       THEN /\ pc' = "EnsureTry"
            /\ todo' = checkPackageJsonTry
       ELSE /\ pc' = "EnsureCatch"
            /\ todo' = checkPackageJsonCatch(scope, YES_ARG)
    /\ Running
    /\ UNCHANGED <<flags, runner, files, dirEmpty, manifestExists, decisions, rootLicense, child,
                   log, asked, messages>>

\* if (!isCreatingWorkspace) { copy root files, install the shared tooling }
RootFiles ==
    /\ ~exited /\ pc = "RootFiles"
    /\ todo' = RootSetup(isCreatingWorkspace)
    /\ pc' = "RootSetup"
    /\ Running
    /\ UNCHANGED <<flags, runner, files, dirEmpty, manifestExists, decisions, rootLicense, child,
                   log, asked, messages, accessOk, ensureCalls>>

\* const rootLicense = await getPackageJsonLicense(<cwd>/package.json)
GetPackageJsonLicense ==
    /\ ~exited /\ pc = "ReadLicense"
    /\ \E readOk \in BOOLEAN, license \in Licenses :
         /\ readOk => manifestExists
         /\ ~readOk => license = ""
         /\ rootLicense' = license
         /\ log' = Append(log, Entry(ReadFile("getPackageJsonLicense", Cwd, "", "package.json"),
                                     IF readOk THEN "ok" ELSE "failed", -1))
         /\ messages' = IF readOk THEN messages
                        ELSE messages \cup {"There was an error copying license"}
    /\ pc' = After("ReadLicense")
    /\ Running
    /\ UNCHANGED <<flags, runner, files, dirEmpty, manifestExists, decisions, todo, child, asked,
                   accessOk, ensureCalls>>

\* if (isMonorepo) ... else if (isCreatingWorkspace) ... else ...
SelectFlow ==
    /\ ~exited /\ pc = "SelectFlow"
    /\ todo' = FlowSteps(isMonorepo, isCreatingWorkspace, createWorkspace, scope,
                         rootLicense)
    /\ pc' = "Flow"
    /\ Running
    /\ UNCHANGED <<flags, runner, files, dirEmpty, manifestExists, decisions, rootLicense, child,
                   log, asked, messages, accessOk, ensureCalls>>

\* the missing-license message, and the end of the script
FinishMutantAnyMode ==
    /\ ~exited /\ pc = "Finish"
    /\ messages' = IF rootLicense = ""
                   THEN messages \cup {"No license found in root package.json"}
                   ELSE messages
    /\ Exit(0, "")
    /\ UNCHANGED <<flags, runner, files, dirEmpty, manifestExists, pc, decisions,
                   rootLicense, todo, child, log, asked, accessOk, ensureCalls>>

Finish ==
    /\ ~exited /\ pc = "Finish"
    /\ messages' = IF rootLicense = "" /\ (isMonorepo \/ isCreatingWorkspace)
                   THEN messages \cup {"No license found in root package.json"}
                   ELSE messages
    /\ Exit(0, "")
    /\ UNCHANGED <<flags, runner, files, dirEmpty, manifestExists, pc, decisions, rootLicense,
                   todo, child, log, asked, accessOk, ensureCalls>>

Next ==
    \/ CheckEmptyDirectory
    \/ CheckCreateWorkspace
    \/ CheckCreateMonorepo
    \/ GetScope
    \/ CheckPackageJson
    \/ StartCommand
    \/ ChildExit
    \/ ChildError
    \/ FsStep
    \/ Return
    \/ RootFiles
    \/ GetPackageJsonLicense
    \/ SelectFlow
    \/ Finish

Spec == Init /\ [][Next]_vars

(***************************************************************************)
(* getScope on its own: the script stands at the scope decision of a run   *)
(* in an empty directory (no prompt was shown yet, the monorepo decision   *)
(* came from the flag), with longer flag values and answers.               *)
(***************************************************************************)
InitScope ==
    /\ YES_ARG \in BOOLEAN
    /\ MONOREPO_ARG \in BOOLEAN
    /\ CREATE_WORKSPACE_ARG = ""
    /\ SCOPE_ARG \in ScopeInputs
    /\ dirEmpty = TRUE
    /\ manifestExists = FALSE
    /\ pc = "ScopeResolve"
    /\ isEmpty = TRUE
    /\ createWorkspace = ""
    /\ isCreatingWorkspace = FALSE
    /\ isMonorepo = MONOREPO_ARG
    /\ scope = <<>>
    /\ rootLicense = ""
    /\ todo = <<>>
    /\ child = FALSE
    /\ log = <<>>
    /\ asked = <<>>
    /\ messages = {}
    /\ accessOk = FALSE
    /\ ensureCalls = 0
    /\ exited = FALSE
    /\ exitCode = 0
    /\ error = ""
    /\ promise = NoPromise
    /\ wired = {}
    /\ events = <<>>
    /\ disk = <<>>
    /\ contents = <<>>
    /\ listing = <<>>
    /\ copies = <<>>
    /\ target = <<>>

GetScopeLong == GetScopeFrom(ScopeInputs)

NextScope == GetScopeLong

SpecScope == InitScope /\ [][NextScope]_vars

(***************************************************************************)
(* runCommand on its own: the script stands at the first command of a run  *)
(* in an empty directory (the "npm init" of checkPackageJson is running),  *)
(* and the child's "exit" and "error" events are delivered to the handlers *)
(* in either order, each at most once.  What the script does after the     *)
(* await is left out.                                                      *)
(***************************************************************************)
scriptVars == <<flags, files, dirEmpty, manifestExists, pc, decisions, rootLicense,
                todo, child, log, asked, messages, accessOk, ensureCalls, exited,
                exitCode, error>>

InitRun ==
    /\ YES_ARG \in BOOLEAN
    /\ MONOREPO_ARG \in BOOLEAN
    /\ CREATE_WORKSPACE_ARG = ""
    /\ SCOPE_ARG \in ScopeTexts \ {<<>>}
    /\ dirEmpty = TRUE
    /\ manifestExists = FALSE
    /\ pc = "EnsureCatch"
    /\ isEmpty = TRUE
    /\ createWorkspace = ""
    /\ isCreatingWorkspace = FALSE
    /\ isMonorepo \in BOOLEAN
    /\ MONOREPO_ARG => isMonorepo
    /\ scope = getScope(ScopeIsOptional(isMonorepo, FALSE), SCOPE_ARG, <<>>).value
    /\ rootLicense = ""
    /\ todo = checkPackageJsonCatch(scope, YES_ARG)
    /\ child = TRUE
    /\ log = <<Entry(Head(todo), "running", NoCode)>>
    /\ asked = IF checkCreateMonorepo(TRUE, MONOREPO_ARG, isMonorepo).prompted
               THEN <<Asked("monorepo", isMonorepo, "", <<>>)>>
               ELSE <<>>
    /\ messages = {}
    /\ accessOk = FALSE
    /\ ensureCalls = 1
    /\ exited = FALSE
    /\ exitCode = 0
    /\ error = ""
    /\ promise = Pending
    /\ wired = Pipes
    /\ events = <<>>
    /\ disk = <<>>
    /\ contents = <<>>
    /\ listing = <<>>
    /\ copies = <<>>
    /\ target = <<>>

ExitArrives ==
    /\ child
    /\ \A i \in 1..Len(events) : events[i] = NoCode
    /\ \E code \in ExitCodes : ExitEvent(code)
    /\ UNCHANGED scriptVars

ErrorArrives ==
    /\ child
    /\ \A i \in 1..Len(events) : events[i] # NoCode
    /\ ErrorEvent
    /\ UNCHANGED scriptVars

NextRun == ExitArrives \/ ErrorArrives

SpecRun == InitRun /\ [][NextRun]_vars

(***************************************************************************)
(* patchEslintImportInternal on its own: the script stands at the start of *)
(* the monorepo flow of a run in an empty directory (-m given, the scope   *)
(* typed at the prompt, manifest created, root files copied and tooling    *)
(* installed), and .eslintrc.cjs is any document of up to MaxLintLines     *)
(* lines, each the commented-out line or another one.                      *)
(***************************************************************************)
LintDocs == UNION {[1..k -> {CommentedRule, OtherLine}] : k \in 0..MaxLintLines}
\* the log of steps that all succeeded
DoneLog(steps) ==
    [i \in 1..Len(steps) |->
        Entry(steps[i], "ok", IF steps[i].kind = "cmd" THEN 0 ELSE NoCode)]

InitLint ==
    /\ YES_ARG \in BOOLEAN
    /\ MONOREPO_ARG = TRUE
    /\ CREATE_WORKSPACE_ARG = ""
    /\ SCOPE_ARG = <<>>
    /\ dirEmpty = FALSE
    /\ manifestExists = TRUE
    /\ pc = "Flow"
    /\ isEmpty = TRUE
    /\ createWorkspace = ""
    /\ isCreatingWorkspace = FALSE
    /\ isMonorepo = TRUE
    /\ \E answer \in ScopeTexts \ {<<>>} :
         /\ asked = <<Asked("scope", FALSE, "", answer)>>
         /\ scope = getScope(ScopeIsOptional(TRUE, FALSE), <<>>, answer).value
    /\ rootLicense \in Licenses
    /\ todo = MonorepoFlow(scope, rootLicense)
    /\ child = FALSE
    /\ log = DoneLog(checkPackageJsonCatch(scope, YES_ARG) \o RootSetup(FALSE)
                     \o <<ReadFile("getPackageJsonLicense", Cwd, "", "package.json")>>)
    /\ messages = {}
    /\ accessOk = FALSE
    /\ ensureCalls = 1
    /\ exited = FALSE
    /\ exitCode = 0
    /\ error = ""
    /\ promise = Resolve(Pending)
    /\ wired = {}
    /\ events = <<0>>
    /\ \E doc \in LintDocs :
         disk = Put(RanAll(<<>>, checkPackageJsonCatch(scope, YES_ARG)),
                    File(Cwd, ".eslintrc.cjs"), doc)
    /\ contents = <<>>
    /\ listing = <<>>
    /\ copies = <<>>
    /\ target = <<>>

NextLint == FsStep

SpecLint == InitLint /\ [][NextLint]_vars

(***************************************************************************)
(* copyFiles on its own: the script of a run started with -m --scope=@a in *)
(* an empty directory has created the manifest and is inside               *)
(* copyFiles(ROOT_FILES_DIR, cwd); allFiles has returned and every         *)
(* fs.copyFile has been issued.  The source directory is any set of up to  *)
(* MaxDirEntries entries, each a regular file or a directory.              *)
(***************************************************************************)
\* names of directory entries, as sequences of characters
FileNames ==
    { <<"x">>, <<"d", "o", "t", "x">>, <<".", "x">>, <<"d", "o", "t">>,
      <<"x", "d", "o", "t">> }
Kinds == {"file", "dir"}
Listings ==
    UNION {[S -> Kinds] : S \in {T \in SUBSET FileNames : Cardinality(T) <= MaxDirEntries}}

\* allFiles(dir): the entries whose stats.isFile() holds
allFilesMutantEverything(entries) == DOMAIN entries
allFiles(entries) == {f \in DOMAIN entries : entries[f] = "file"}

\* file.replace(/^dot/, ".")
DotNameMutantEverywhere(file) ==
    IF Len(file) >= 3 /\ SubSeq(file, Len(file) - 2, Len(file)) = <<"d", "o", "t">>
    THEN SubSeq(file, 1, Len(file) - 3) \o <<".">>
    ELSE IF Len(file) >= 3 /\ SubSeq(file, 1, 3) = <<"d", "o", "t">>
    THEN <<".">> \o SubSeq(file, 4, Len(file))
    ELSE file
DotName(file) ==
    IF Len(file) >= 3 /\ SubSeq(file, 1, 3) = <<"d", "o", "t">>
    THEN <<".">> \o SubSeq(file, 4, Len(file))
    ELSE file

InitCopy ==
    /\ YES_ARG \in BOOLEAN
    /\ MONOREPO_ARG = TRUE
    /\ CREATE_WORKSPACE_ARG = ""
    /\ SCOPE_ARG = <<"@", "a">>
    /\ dirEmpty = FALSE
    /\ manifestExists = TRUE
    /\ pc = "RootSetup"
    /\ isEmpty = TRUE
    /\ createWorkspace = ""
    /\ isCreatingWorkspace = FALSE
    /\ isMonorepo = TRUE
    /\ scope = <<"@", "a">>
    /\ rootLicense = ""
    /\ todo = RootSetup(FALSE)
    /\ child = FALSE
    /\ log = DoneLog(checkPackageJsonCatch(scope, YES_ARG))
             \o <<Entry(Head(RootSetup(FALSE)), "running", NoCode)>>
    /\ asked = <<>>
    /\ messages = {}
    /\ accessOk = FALSE
    /\ ensureCalls = 1
    /\ exited = FALSE
    /\ exitCode = 0
    /\ error = ""
    /\ promise = Resolve(Pending)
    /\ wired = {}
    /\ events = <<0>>
    /\ disk = RanAll(<<>>, checkPackageJsonCatch(scope, YES_ARG))
    /\ contents = <<>>
    /\ listing \in Listings
    /\ copies = [f \in allFiles(listing) |-> "pending"]
    /\ target = <<>>

\* one fs.copyFile(fromDir/file, toDir/name) has completed
CopyFileDone ==
    /\ ~exited
    /\ \E f \in DOMAIN copies :
         /\ copies[f] = "pending"
         /\ copies' = [copies EXCEPT ![f] = "done"]
         /\ target' = Put(target, DotName(f), f)
    /\ UNCHANGED <<flags, runner, disk, contents, listing, dirEmpty, manifestExists, pc,
                   decisions, rootLicense, todo, child, log, asked, messages,
                   accessOk, ensureCalls, exited, exitCode, error>>

\* one fs.copyFile has failed: Promise.all rejects, the awaiting script throws
CopyFileFails ==
    /\ ~exited
    /\ \E f \in DOMAIN copies :
         /\ copies[f] = "pending"
         /\ copies' = [copies EXCEPT ![f] = "failed"]
    /\ log' = SetLast(log, "failed", NoCode)
    /\ Throw("io error")
    /\ UNCHANGED <<flags, runner, disk, contents, listing, target, dirEmpty,
                   manifestExists, decisions, rootLicense, child, asked, messages,
                   accessOk, ensureCalls>>

\* every fs.copyFile has completed: Promise.all resolves, the script goes on
CopiesSettle ==
    /\ ~exited
    /\ log[Len(log)].result = "running"
    /\ \A f \in DOMAIN copies : copies[f] = "done"
    /\ log' = SetLast(log, "ok", NoCode)
    /\ todo' = Tail(todo)
    /\ disk' = Written(disk, Head(todo), contents)
    /\ Running
    /\ UNCHANGED <<flags, runner, contents, copying, dirEmpty, manifestExists, pc,
                   decisions, rootLicense, child, asked, messages, accessOk,
                   ensureCalls>>

NextCopy == CopyFileDone \/ CopyFileFails \/ CopiesSettle

SpecCopy == InitCopy /\ [][NextCopy]_vars

(***************************************************************************)
(* patchTsconfigJson on its own: the script of a Single or Monorepo run in *)
(* an empty directory stands in preparePackage, a tsconfig file has just   *)
(* been read and is about to be patched.  The file is any document of      *)
(* PatchDocs; once written, the patch is applied again to what it wrote,   *)
(* up to MaxPatchRuns times in all.                                        *)
(***************************************************************************)
PathEntries ==
    { [key |-> <<"@", "a", "/", "*">>, value |-> <<"../*/src">>],
      [key |-> <<"@", "a", "/", "*">>, value |-> <<"lib">>],
      [key |-> <<"@", "b", "/", "*">>, value |-> <<"../b">>] }
PatchDocs ==
    { doc \in [outDir : {<<>>, <<"dist">>, <<"out">>},
               include : {<<>>, <<"src">>, <<"lib">>},
               paths : SUBSET PathEntries,
               extends : {"", "./tsconfig.build.json"}] :
        \A p \in doc.paths : \A q \in doc.paths : p.key = q.key => p = q }

\* the disk and the text read last after steps have all succeeded
RECURSIVE Replay(_, _)
Replay(s, steps) ==
    IF steps = <<>> THEN s
    ELSE LET st == Head(steps) IN
         Replay(CASE st.kind = "cmd" -> [s EXCEPT !.disk = Ran(s.disk, st)]
                  [] st.kind = "read" -> [s EXCEPT !.contents = ReadText(s.disk, st)]
                  [] st.kind = "write" -> [s EXCEPT !.disk = Written(s.disk, st, s.contents)],
                Tail(steps))

InitPatch ==
    /\ YES_ARG = TRUE
    /\ MONOREPO_ARG \in BOOLEAN
    /\ CREATE_WORKSPACE_ARG = ""
    /\ SCOPE_ARG \in {<<>>, <<"@", "a">>}
    /\ MONOREPO_ARG => SCOPE_ARG # <<>>
    /\ dirEmpty = FALSE
    /\ manifestExists = TRUE
    /\ pc = "Flow"
    /\ isEmpty = TRUE
    /\ createWorkspace = ""
    /\ isCreatingWorkspace = FALSE
    /\ isMonorepo = MONOREPO_ARG
    /\ scope = SCOPE_ARG
    /\ rootLicense = ""
    /\ child = FALSE
    /\ asked = Opt(~MONOREPO_ARG, <<Asked("monorepo", FALSE, "", <<>>)>>)
               \o Opt(SCOPE_ARG = <<>>, <<Asked("scope", FALSE, "", <<>>)>>)
    /\ messages = {}
    /\ accessOk = FALSE
    /\ ensureCalls = 1
    /\ exited = FALSE
    /\ exitCode = 0
    /\ error = ""
    /\ promise = Resolve(Pending)
    /\ wired = {}
    /\ events = <<0>>
    /\ LET flow == FlowSteps(isMonorepo, FALSE, "", scope, rootLicense) IN
       \E k \in 1..Len(flow) :
          LET done == checkPackageJsonCatch(scope, YES_ARG) \o RootSetup(FALSE)
                      \o <<ReadFile("getPackageJsonLicense", Cwd, "", "package.json")>>
                      \o SubSeq(flow, 1, k - 1)
              s == Replay([disk |-> <<>>, contents |-> <<>>], done)
          IN  /\ flow[k].op = "patchTsconfigJson"
              /\ todo = SubSeq(flow, k, Len(flow))
              /\ log = DoneLog(done)
              /\ \E doc \in PatchDocs :
                    /\ disk = Put(s.disk, File(flow[k].dir, flow[k].key), doc)
                    /\ contents = doc
    /\ listing = <<>>
    /\ copies = <<>>
    /\ target = <<>>

\* the number of times the newest step has been issued
PatchRuns == Cardinality({i \in 1..Len(log) : log[i].step = log[Len(log)].step})

\* the patch of the newest step applied once more, to the file it has written
PatchAgain ==
    /\ ~exited /\ log # <<>>
    /\ log[Len(log)].step.op = "patchTsconfigJson" /\ log[Len(log)].result = "ok"
    /\ PatchRuns < MaxPatchRuns
    /\ LET st == log[Len(log)].step IN
         /\ contents' = ReadText(disk, st)
         /\ disk' = Written(disk, st, ReadText(disk, st))
         /\ log' = Append(log, Entry(st, "ok", NoCode))
    /\ Running
    /\ UNCHANGED <<flags, runner, copying, dirEmpty, manifestExists, pc, decisions,
                   rootLicense, todo, child, asked, messages, accessOk, ensureCalls>>

NextPatch == FsStep \/ PatchAgain

SpecPatch == InitPatch /\ [][NextPatch]_vars

(***************************************************************************)
(* Properties.                                                             *)
(***************************************************************************)
LogIdx == 1..Len(log)
AskedIdx == 1..Len(asked)
IsCmd(e) == e.step.kind = "cmd"
WasAsked(q) == \E i \in AskedIdx : asked[i].q = q

\* C1: once a runCommand invocation rejects, no further external command is
\* started (and none is run again), whichever step the failing command
\* belongs to, the type=module patch of checkPackageJson included.
C1_FailureIsFatal ==
    \A i \in LogIdx : \A j \in LogIdx :
        (i < j /\ IsCmd(log[i]) /\ log[i].result = "failed") => ~IsCmd(log[j])

\* the scope prompt was answered with the empty text
EmptyScopeAnswer == \E i \in AskedIdx : asked[i].q = "scope" /\ asked[i].chars = <<>>
ScopeRequiredError == exited /\ error = "Scope is required"
ScopeRunContinues == ~ScopeRequiredError /\ pc # "ScopeResolve" /\ scope = <<>>

\* C2 (as claimed): an empty answer to the scope prompt fails the run exactly
\* when neither monorepo nor workspace creation was selected, and yields the
\* empty scope, the run continuing, when isMonorepo or isCreatingWorkspace.
C2_RequiredWhenNeither ==
    EmptyScopeAnswer =>
        IF ~isMonorepo /\ ~isCreatingWorkspace
        THEN ScopeRequiredError
        ELSE ScopeRunContinues

\* C2 (amended): an empty answer to the scope prompt fails the run with
\* "Scope is required" exactly when isMonorepo or isCreatingWorkspace, and
\* yields the empty scope, the run continuing, when neither was selected.
C2_RequiredWhenMonorepoOrWorkspace ==
    EmptyScopeAnswer =>
        IF isMonorepo \/ isCreatingWorkspace
        THEN ScopeRequiredError
        ELSE ScopeRunContinues

C2_Witness == EmptyScopeAnswer /\ isMonorepo /\ ScopeRequiredError

Declined == \E i \in AskedIdx : asked[i].q = "empty" /\ ~asked[i].yes
FullSuccess ==
    /\ pc = "Finish"
    /\ \A i \in LogIdx : IsCmd(log[i]) => log[i].result = "ok"

\* C3: when an external command fails with exit code c # 0 the process ends
\* with exit code c, and the process exits 0 only on full success or when the
\* user declines the non-empty-directory confirmation.
C3_ExitCodeMirrors ==
    exited =>
        /\ \A i \in LogIdx :
             (IsCmd(log[i]) /\ log[i].result = "failed" /\ log[i].code > 0)
                 => exitCode = log[i].code
        /\ exitCode = 0 => (FullSuccess \/ Declined)

\* the commands checkPackageJson has issued, in order
EnsureLog == SelectSeq(log, LAMBDA e : e.step.fn = "checkPackageJson")
IsModulePatch(st) ==
    st.op = "pkg set" /\ st.ws = "" /\ st.key = "type" /\ st.val = "module"
IsRootInit(st) == st.op = "init" /\ st.ws = ""

\* C4: checkPackageJson chooses its branch by the existence of package.json
\* alone: if it exists only the type=module patch is run and npm init never;
\* if not, npm init (-y iff the yes flag, --scope=<scope> iff the scope is not
\* empty) and then the type=module patch.
C4_BranchByExistence ==
    ensureCalls > 0 =>
        IF accessOk
        THEN /\ Len(EnsureLog) <= 1
             /\ \A i \in 1..Len(EnsureLog) : IsModulePatch(EnsureLog[i].step)
        ELSE /\ Len(EnsureLog) <= 2
             /\ Len(EnsureLog) >= 1 =>
                  /\ IsRootInit(EnsureLog[1].step)
                  /\ EnsureLog[1].step.yes = YES_ARG
                  /\ EnsureLog[1].step.scope = scope
             /\ Len(EnsureLog) = 2 =>
                  /\ EnsureLog[1].result = "ok"
                  /\ IsModulePatch(EnsureLog[2].step)

\* the place of a step in the order of provisioning one package
Stage(st) ==
    CASE st.op = "pkg set" /\ st.key = "license" -> 1
      [] st.op = "install" /\ st.val = "typescript eslint" -> 2
      [] st.op = "install" /\ st.val = "vitest vite-tsconfig-paths" -> 3
      [] st.op = "copyFiles" /\ st.val = "template-files/common" -> 4
      [] st.op = "copyFiles" /\ st.val = "template-files/package" -> 5
      [] st.op \in {"mkdir", "copyFile"} -> 6
      [] st.op \in {"readFile", "writeFile"} /\ st.key = "src/index.ts" -> 6
      [] st.op \in {"readFile", "patchTsconfigJson"}
           /\ st.key \in {"tsconfig.json", "tsconfig.build.json"} -> 7
      [] st.op = "pkg set" /\ st.key = "scripts.lint" -> 8
      [] st.op = "pkg set" /\ st.key = "scripts.build" -> 9
      [] st.op = "pkg set" /\ st.key = "scripts.test" -> 10
      [] st.op = "pkg set" /\ st.key = "scripts.test:watch" -> 11
      [] st.op = "pkg set" /\ st.key = "main" -> 12
      [] st.op = "pkg set" /\ st.key = "types" -> 13
      [] st.op = "pkg set" /\ st.key = "type" -> 14
      [] st.op = "run" /\ st.key = "lint" -> 15
      [] st.op = "run" /\ st.key = "build" -> 16
      [] st.op = "run" /\ st.key = "test" -> 17
      [] OTHER -> 0
LastStage == 17
\* the stages made of several file-system calls
GroupStages == {6, 7}

InPrepare(e) == e.step.fn = "preparePackage"
\* the steps preparePackage has issued for the package at directory d
PackageLog(d) == SelectSeq(log, LAMBDA e : InPrepare(e) /\ e.step.dir = d)
PackageDirs == {Cwd, libDir, appDir} \cup (WorkspacePaths \ {""})
\* the first stage (1 needs a license) and the stage after s (5 needs a
\* workspace) of the package that step st belongs to
FirstStage == IF rootLicense # "" THEN 1 ELSE 2
StageAfter(s, st) == IF s = 4 /\ st.ws = "" THEN 6 ELSE s + 1

\* C5: the steps of preparePackage are issued in the order license (if known),
\* typescript+eslint, vitest, common files, package-only files (workspace members
\* only), src/test templates, compiler configuration, scripts.lint/build/test/
\* test:watch, main, types, type=module, lint, build, test; each only after
\* the previous one completed, and none after a failed one.
\* (The log only grows at its end, so every step is judged when it is the
\* newest.)
C5_PreparePackageOrder ==
    (log # <<>> /\ InPrepare(log[Len(log)])) =>
        LET L == PackageLog(log[Len(log)].step.dir)
            k == Len(L)
            S == [j \in {k - 1, k} \ {0} |-> Stage(L[j].step)]
        IN  /\ S[k] \in 1..LastStage
            /\ k = 1 => S[k] = FirstStage
            /\ k > 1 =>
                 /\ L[k - 1].result = "ok"
                 /\ \/ S[k] = S[k - 1] /\ S[k] \in GroupStages
                    \/ S[k] = StageAfter(S[k - 1], L[k].step)

C5_Witness ==
    \E j \in LogIdx :
        /\ InPrepare(log[j]) /\ Stage(log[j].step) = LastStage /\ log[j].result = "ok"
        /\ log[j].step.ws # "" /\ rootLicense # ""

\* the steps that provision: root files and tooling, member creation, the
\* steps of preparePackage and the rest of the flows
Provisions(e) == e.step.fn \in {"root", "flow", "preparePackage", "patchEslintImportInternal"}
EnsurePcs == {"ManifestEnsure", "EnsureTry", "EnsureCatch"}
BeforeEnsure == {"EmptyCheck", "WorkspaceCheck", "MonorepoCheck", "ScopeResolve"}

\* C6: in every mode checkPackageJson is called exactly once per run, and it
\* has completed before any provisioning step starts.
C6_ManifestEnsureOnce ==
    /\ ensureCalls <= 1
    /\ pc \notin (BeforeEnsure \cup {"ManifestEnsure"}) => ensureCalls = 1
    /\ (\E j \in LogIdx : Provisions(log[j])) =>
         /\ ensureCalls = 1
         /\ pc \notin (BeforeEnsure \cup EnsurePcs)
         /\ EnsureLog # <<>>
         /\ \A i \in 1..Len(EnsureLog) : log[i] = EnsureLog[i]
         /\ EnsureLog[Len(EnsureLog)].result = "ok"
         /\ IsModulePatch(EnsureLog[Len(EnsureLog)].step)

C6_Witness ==
    /\ pc = "Flow" /\ ensureCalls = 1
    /\ \E j \in LogIdx : InPrepare(log[j])

IsLib(e) == e.step.dir = libDir
IsApp(e) == e.step.dir = appDir
AppIdx == {j \in LogIdx : IsApp(log[j])}
LibIdx == {i \in LogIdx : IsLib(log[i])}
LibRan(script) ==
    \E i \in LibIdx :
        /\ log[i].step.op = "run" /\ log[i].step.key = script
        /\ log[i].step.ws = libWorkspace /\ log[i].result = "ok"

\* C7: in Monorepo mode packages/lib is provisioned to the end, its lint, build
\* and test runs included, before packages/app is created or any of its steps
\* begins; after a failed library step no application step is executed.
C7_LibBeforeApp ==
    AppIdx # {} =>
        /\ isMonorepo
        /\ \A i \in LibIdx : log[i].result = "ok" /\ \A j \in AppIdx : i < j
        /\ LibRan("lint") /\ LibRan("build") /\ LibRan("test")

C7_Witness == \E j \in LogIdx : IsApp(log[j]) /\ log[j].step.op = "init"

\* the scope input of the run: the flag value if there is one, else the answer
\* to the scope prompt
ScopeFromFlag == SCOPE_ARG # <<>>
ScopeInput ==
    IF ScopeFromFlag THEN SCOPE_ARG
    ELSE asked[CHOOSE i \in AskedIdx : asked[i].q = "scope"].chars
ScopeReturned == pc # "ScopeResolve" /\ ~exited

\* C8 (as claimed): for every scope input s, flag value or prompt answer, the
\* normalized scope is empty if s is empty, s unchanged if s starts with "@",
\* and "@" followed by s otherwise.
C8_ScopeNormalized ==
    ScopeReturned =>
        LET s == ScopeInput IN
        /\ s = <<>> => scope = <<>>
        /\ StartsWithAt(s) => scope = s
        /\ (s # <<>> /\ ~StartsWithAt(s)) => scope = <<"@">> \o s

OnlyWhitespace(s) == \A k \in 1..Len(s) : s[k] = " "
\* s without the whitespace at its end
RECURSIVE Chomp(_)
Chomp(s) == IF s # <<>> /\ s[Len(s)] = " " THEN Chomp(SubSeq(s, 1, Len(s) - 1)) ELSE s

\* C8 (amended): a flag value s gives s unchanged if it starts with "@" and "@"
\* followed by s otherwise; a prompt answer s gives the empty scope if s is
\* empty or only whitespace, s without its trailing whitespace if s starts
\* with "@", and "@" followed by s unchanged otherwise.
C8_ScopeNormalizedTrimmed ==
    ScopeReturned =>
        LET s == ScopeInput IN
        IF ScopeFromFlag
        THEN /\ StartsWithAt(s) => scope = s
             /\ ~StartsWithAt(s) => scope = <<"@">> \o s
        ELSE /\ OnlyWhitespace(s) => scope = <<>>
             /\ StartsWithAt(s) => scope = Chomp(s)
             /\ (~OnlyWhitespace(s) /\ ~StartsWithAt(s)) => scope = <<"@">> \o s

C8_Witness ==
    /\ ScopeReturned /\ ~ScopeFromFlag
    /\ StartsWithAt(ScopeInput) /\ ScopeInput[Len(ScopeInput)] = " "
    /\ scope # ScopeInput

ModeInv ==
    /\ ~(isMonorepo /\ isCreatingWorkspace)
    /\ createWorkspace # "" => (~isMonorepo /\ ~WasAsked("monorepo"))
ModeDecided == pc \notin {"EmptyCheck", "WorkspaceCheck", "MonorepoCheck"}
ModeKept ==
    ModeDecided =>
        /\ isMonorepo' = isMonorepo
        /\ isCreatingWorkspace' = isCreatingWorkspace
        /\ createWorkspace' = createWorkspace

\* C9: isMonorepo and isCreatingWorkspace are never both true; when a workspace
\* path was resolved the monorepo decision is false and no monorepo prompt is
\* shown; the mode is decided before checkPackageJson and never changes after.
C9_ModeExclusive ==
    /\ [](ModeInv /\ (pc \in EnsurePcs => ModeDecided))
    /\ [][ModeKept]_vars

C9_Witness ==
    /\ pc = "Flow" /\ isCreatingWorkspace /\ MONOREPO_ARG
    /\ \E j \in LogIdx : InPrepare(log[j])

\* the working directory was empty when the run started
StartedEmpty == IF pc = "EmptyCheck" THEN dirEmpty ELSE isEmpty
EmptyChecked == pc # "EmptyCheck" \/ exited

\* C10: if the working directory is not empty and no workspace flag was given,
\* the confirmation is asked; when the user declines it the process exits with
\* code 0 and no file was written and no external command was executed.
C10_DeclineIsClean ==
    /\ (EmptyChecked /\ ~StartedEmpty /\ CREATE_WORKSPACE_ARG = "") => WasAsked("empty")
    /\ Declined =>
         /\ exited /\ exitCode = 0 /\ error = ""
         /\ log = <<>>
         /\ ensureCalls = 0

C10_Witness == Declined /\ exited /\ ~dirEmpty /\ manifestExists

(***************************************************************************)
(* The workspace path.                                                     *)
(***************************************************************************)
\* the root manifest as it was when the run began: nothing touches it before
\* checkPackageJson, whose fs.access saw it as it was
ManifestAtStart == IF ensureCalls = 0 THEN manifestExists ELSE accessOk
WorkspaceResolved == pc \notin {"EmptyCheck", "WorkspaceCheck"}
WorkspaceAnswers == SelectSeq(asked, LAMBDA a : a.q = "workspace")
EmptyDirWarning == "Ignoring --workspace flag since current directory is empty"

\* C11: once the workspace path is resolved it is empty whenever the
\* directory was empty (with the warning if the flag gave a value) and
\* whenever there was no root package.json; otherwise it is the flag's value
\* if there is one, else the answer to the workspace prompt.  So a workspace
\* is only ever added to a non-empty directory that had a root manifest.
C11_WorkspacePath ==
    WorkspaceResolved =>
      /\ StartedEmpty =>
           /\ createWorkspace = ""
           /\ CREATE_WORKSPACE_ARG # "" => EmptyDirWarning \in messages
      /\ ~ManifestAtStart => createWorkspace = ""
      /\ (~StartedEmpty /\ ManifestAtStart) =>
           IF CREATE_WORKSPACE_ARG # ""
           THEN createWorkspace = CREATE_WORKSPACE_ARG /\ WorkspaceAnswers = <<>>
           ELSE /\ Len(WorkspaceAnswers) = 1
                /\ createWorkspace = WorkspaceAnswers[1].text
      /\ isCreatingWorkspace = (createWorkspace # "")
      /\ isCreatingWorkspace => ~StartedEmpty /\ ManifestAtStart

C11_Witness ==
    /\ pc = "Finish" /\ isCreatingWorkspace /\ CREATE_WORKSPACE_ARG = ""
    /\ createWorkspace = "packages/newLib"

(***************************************************************************)
(* A run with the workspace flag in a repository.                          *)
(***************************************************************************)
WorkspaceFlagRun ==
    CREATE_WORKSPACE_ARG # "" /\ ~StartedEmpty /\ ManifestAtStart
MonorepoWarning == "Ignoring --monorepo flag since creating a workspace"
IsMemberInit(e) == e.step.op = "init" /\ e.step.ws # ""
MemberInits == SelectSeq(log, IsMemberInit)
Prepared == SelectSeq(log, InPrepare)
\* what the run does to packages: one member at the flag's path, provisioned
\* completely by the time the script ends
OnePackageAtFlagPath ==
    /\ Len(MemberInits) <= 1
    /\ \A i \in 1..Len(MemberInits) :
         MemberInits[i].step.ws = CREATE_WORKSPACE_ARG
    /\ Len(Prepared) = Len(PackageLog(CREATE_WORKSPACE_ARG))
    /\ \A i \in 1..Len(Prepared) : Prepared[i].step.ws = CREATE_WORKSPACE_ARG
    /\ pc = "Finish" =>
         /\ Len(MemberInits) = 1 /\ MemberInits[1].result = "ok"
         /\ Prepared # <<>>
         /\ Stage(Prepared[Len(Prepared)].step) = LastStage
         /\ Prepared[Len(Prepared)].result = "ok"

\* C12 as stated: with -w <path> in a non-empty directory that has a
\* package.json no empty-directory prompt and no monorepo prompt is shown, the
\* monorepo decision is false and its warning is printed, and the one package
\* provisioned is the one at the flag's path.
C12_WorkspaceFlagWarns ==
    WorkspaceFlagRun =>
      /\ ~WasAsked("empty")
      /\ ModeDecided =>
           /\ ~isMonorepo /\ ~WasAsked("monorepo")
           /\ MonorepoWarning \in messages
      /\ OnePackageAtFlagPath

\* C12 with the warning as the code prints it: only when --monorepo was given
\* as well.
C12_WorkspaceFlagRun ==
    WorkspaceFlagRun =>
      /\ ~WasAsked("empty")
      /\ ModeDecided =>
           /\ ~isMonorepo /\ ~WasAsked("monorepo")
           /\ (MonorepoWarning \in messages) = MONOREPO_ARG
      /\ OnePackageAtFlagPath

C12_Witness ==
    /\ WorkspaceFlagRun /\ pc = "Finish" /\ exited /\ ~MONOREPO_ARG
    /\ Len(MemberInits) = 1

(***************************************************************************)
(* Adding a workspace to a repository.                                     *)
(***************************************************************************)
\* what the script did after the root manifest was ensured and read
FlowLog == SelectSeq(log, LAMBDA e : e.step.fn \in {"root", "flow", "preparePackage",
                                                    "patchEslintImportInternal"})
\* the three parts of the add-workspace flow, 0 for a step that is none of them
Phase(e) ==
    CASE e.step.fn = "flow" /\ IsMemberInit(e) -> 1
      [] e.step.fn = "preparePackage" -> 2
      [] e.step.fn = "flow" /\ e.step.op = "run" /\ e.step.ws = "" -> 3
      [] OTHER -> 0
ScriptRank(script) ==
    CASE script = "build" -> 1
      [] script = "lint" -> 2
      [] script = "test" -> 3
      [] OTHER -> 0
\* entry b may directly follow entry a
PhaseFollows(a, b) ==
    /\ a.result = "ok"
    /\ CASE Phase(b) = 1 -> FALSE
         [] Phase(b) = 2 -> Phase(a) \in {1, 2}
         [] Phase(b) = 3 ->
              \/ /\ Phase(a) = 2 /\ Stage(a.step) = LastStage
                 /\ ScriptRank(b.step.key) = 1
              \/ /\ Phase(a) = 3
                 /\ ScriptRank(b.step.key) = ScriptRank(a.step.key) + 1
         [] OTHER -> FALSE

\* C13: when a workspace is added the first thing done after the root manifest
\* is "npm init -y -w <path>"; the package is then provisioned with that
\* workspace selector; only after its last step do the root's build, lint and
\* test scripts run, without a selector.  Nothing is copied from the root
\* templates and none of the shared root tooling is installed.
\* (the log only grows at its end, so what holds of the newest step in every
\* state holds of every step)
C13_AddWorkspaceFlow ==
    isCreatingWorkspace =>
      /\ LET n == Len(FlowLog) IN
         n > 0 =>
           /\ Phase(FlowLog[n]) # 0
           /\ Phase(FlowLog[n]) \in {1, 2} => FlowLog[n].step.ws = createWorkspace
           /\ IF n = 1
              THEN Phase(FlowLog[n]) = 1 /\ FlowLog[n].step.yes
              ELSE PhaseFollows(FlowLog[n - 1], FlowLog[n])
      /\ pc = "Finish" =>
           /\ FlowLog # <<>>
           /\ Phase(FlowLog[Len(FlowLog)]) = 3
           /\ ScriptRank(FlowLog[Len(FlowLog)].step.key) = 3

C13_Witness ==
    /\ isCreatingWorkspace /\ pc = "Finish" /\ exited
    /\ CREATE_WORKSPACE_ARG = "" /\ scope = <<>>

(***************************************************************************)
(* runCommand.                                                             *)
(***************************************************************************)
Rejected(code) == [state |-> "rejected", code |-> code]

C15_PipesTornDown ==
    /\ promise.state \in {"resolved", "rejected"} => wired = {}
    /\ ~child => wired = {}
    /\ child => promise = Pending /\ wired = Pipes

C15_Witness ==
    /\ child /\ Len(log) = 2
    /\ log[1].result = "failed" /\ log[1].code > 0

(***************************************************************************)
(* The compiler configuration of a provisioned package.                    *)
(***************************************************************************)
HasSetup(doc) == doc.outDir = <<"dist">> /\ doc.include = <<"src">>
NoSetup(doc) == doc.outDir = <<>> /\ doc.include = <<>>
PathKeys(doc) == {p.key : p \in doc.paths}
ScopePaths(sc) == IF sc # <<>> THEN {sc \o <<"/", "*">>} ELSE {}
\* the completed patchTsconfigJson writes of the package at d to its file f
PatchWrites(d, f) ==
    SelectSeq(log, LAMBDA e : /\ InPrepare(e) /\ e.step.dir = d
                              /\ e.step.op = "patchTsconfigJson"
                              /\ e.step.key = f /\ e.result = "ok")
\* the newest step belongs to a package whose compiler configuration stage
\* is over
ConfigDone ==
    /\ log # <<>>
    /\ InPrepare(log[Len(log)])
    /\ Stage(log[Len(log)].step) > 7

\* C16: once preparePackage is past the compiler configuration of a package,
\* outDir and include have been set by exactly one write, to
\* tsconfig.build.json if the package is a workspace member and to
\* tsconfig.json otherwise; the "<scope>/*" entry of paths is in
\* tsconfig.json exactly when the scope is not empty, and never in
\* tsconfig.build.json; a member's tsconfig.json is written once for the
\* entry, and not at all when the scope is empty.
C16_TsconfigPatched ==
    ConfigDone =>
      LET st == log[Len(log)].step
          main == File(st.dir, "tsconfig.json")
          build == File(st.dir, "tsconfig.build.json")
          mainWrites == Len(PatchWrites(st.dir, "tsconfig.json"))
          buildWrites == Len(PatchWrites(st.dir, "tsconfig.build.json"))
      IN  /\ main \in DOMAIN disk
          /\ PathKeys(disk[main]) = ScopePaths(scope)
          /\ IF st.ws # ""
             THEN /\ build \in DOMAIN disk
                  /\ buildWrites = 1
                  /\ HasSetup(disk[build]) /\ PathKeys(disk[build]) = {}
                  /\ NoSetup(disk[main])
                  /\ mainWrites = IF scope # <<>> THEN 1 ELSE 0
             ELSE /\ build \notin DOMAIN disk
                  /\ HasSetup(disk[main])
                  /\ mainWrites = 1

C16_Witness ==
    /\ ConfigDone /\ Stage(log[Len(log)].step) = LastStage
    /\ log[Len(log)].result = "ok"
    /\ log[Len(log)].step.dir = appDir /\ scope # <<>>

(***************************************************************************)
(* The lint configuration.                                                 *)
(***************************************************************************)
Eslintrc == File(Cwd, ".eslintrc.cjs")
IsEslintStep(e, kind) ==
    /\ e.step.fn = "patchEslintImportInternal" /\ e.step.kind = kind
    /\ e.result = "ok"
\* the newest step is the completed write of patchEslintImportInternal, so
\* contents still is the text it had read
EslintWritten == log # <<>> /\ IsEslintStep(log[Len(log)], "write")
Lines(text) == {text[i] : i \in 1..Len(text)}

\* C17: in a monorepo run with an empty scope the patch of the lint
\* configuration writes back the text it read, and no import/internal-regex
\* rule is enabled.
C17_EmptyScopeNoOp ==
    (isMonorepo /\ scope = <<>> /\ EslintWritten) =>
      /\ disk[Eslintrc] = contents
      /\ \A l \in Lines(disk[Eslintrc]) : l.text # ActiveRule(<<>>).text

Occurrences(text) == {i \in 1..Len(text) : text[i] = CommentedRule}
First(S) == CHOOSE i \in S : \A j \in S : i <= j
IsEslintWrite(st) == st.fn = "patchEslintImportInternal" /\ st.kind = "write"

\* C18: patchEslintImportInternal goes from its read to its write without
\* failing whatever the text is; the text it writes is the text it read when
\* that holds no commented-out rule line, and otherwise the text it read with
\* the first such line replaced by the rule line for the scope and every
\* other line as it was.
C18_SubstringEdit ==
    /\ (log # <<>> /\ IsEslintStep(log[Len(log)], "read")) =>
         /\ ~exited /\ contents = disk[Eslintrc]
         /\ todo # <<>> /\ IsEslintWrite(Head(todo))
    /\ EslintWritten =>
         LET old == contents
             new == disk[Eslintrc]
         IN  /\ Len(new) = Len(old)
             /\ IF Occurrences(old) = {}
                THEN new = old
                ELSE /\ new[First(Occurrences(old))] = ActiveRule(scope)
                     /\ \A j \in 1..Len(old) \ {First(Occurrences(old))} :
                          new[j] = old[j]

C18_Witness ==
    /\ EslintWritten
    /\ Occurrences(contents) = {2, 3}
    /\ Occurrences(disk[Eslintrc]) = {3}

(***************************************************************************)
(* The license of the root manifest.                                       *)
(***************************************************************************)
IsLicenseRead(e) == e.step.fn = "getPackageJsonLicense"
IsLicenseSet(e) == e.step.op = "pkg set" /\ e.step.key = "license"
LicenseKnown == pc \in {"SelectFlow", "Flow", "Finish"}
NoLicense == LicenseKnown /\ rootLicense = ""
NoLicenseMessage == "No license found in root package.json"
ReadErrorMessage == "There was an error copying license"
Completed == exited /\ pc = "Finish"
\* the read does not end the run, and no package gets a license-set command
\* (the log only grows at its end, so it is enough to look at its newest step)
LicenseSkipped ==
    log # <<>> =>
      /\ IsLicenseRead(log[Len(log)]) => ~exited
      /\ ~IsLicenseSet(log[Len(log)])

\* C19 as stated: when the root manifest gives no license the run goes on, no
\* license-set command is issued for any package, and by the end of the run
\* an error message about the missing license has been written, whatever the
\* mode.
C19_MissingLicenseLogged ==
    NoLicense =>
      /\ LicenseSkipped
      /\ Completed => messages \cap {NoLicenseMessage, ReadErrorMessage} # {}

\* C19 with the message as the code writes it: at the end of a run that made
\* a monorepo or added a workspace, not of a run that set up a single package
\* (where only a failed read of the manifest is reported).
C19_MissingLicense ==
    NoLicense =>
      /\ LicenseSkipped
      /\ Completed =>
           (NoLicenseMessage \in messages) = (isMonorepo \/ isCreatingWorkspace)

C19_Witness ==
    /\ NoLicense /\ Completed /\ isCreatingWorkspace
    /\ messages = {NoLicenseMessage}

LicenseReads == SelectSeq(log, IsLicenseRead)
InFlow(e) == e.step.fn \in {"flow", "preparePackage", "patchEslintImportInternal"}
FlowStarted == SelectSeq(log, InFlow) # <<>>

\* C20: the license of the root manifest is read once in a run: after
\* checkPackageJson has completed and before the first step that creates or
\* provisions a package; each preparePackage call then starts with the
\* license-set command for that very value (or without one if there is
\* none), so both members of a monorepo get the same license.
\* (The log only grows at its end, so every step is judged when it is the
\* newest.)
C20_LicenseReadOnce ==
    /\ Len(LicenseReads) = IF LicenseKnown THEN 1 ELSE 0
    /\ log # <<>> =>
         LET n == Len(log)
             e == log[n]
         IN  /\ IsLicenseRead(e) =>
                  /\ ~FlowStarted
                  /\ EnsureLog # <<>> /\ EnsureLog[Len(EnsureLog)].result = "ok"
                  /\ IsModulePatch(EnsureLog[Len(EnsureLog)].step)
             /\ e.step.fn = "checkPackageJson" => LicenseReads = <<>>
             /\ InFlow(e) => Len(LicenseReads) = 1
             /\ IsLicenseSet(e) => e.step.val = rootLicense /\ rootLicense # ""
             /\ (InPrepare(e) /\ Stage(e.step) = 2) =>
                  IF rootLicense # ""
                  THEN /\ IsLicenseSet(log[n - 1]) /\ log[n - 1].result = "ok"
                       /\ log[n - 1].step.dir = e.step.dir
                       /\ log[n - 1].step.val = rootLicense
                  ELSE ~IsLicenseSet(log[n - 1])

C20_Witness ==
    /\ Completed /\ isMonorepo /\ rootLicense = "MIT"
    /\ scope = <<"@", "a">>

(***************************************************************************)
(* The end state of a run: the manifests and documents on the disk.        *)
(***************************************************************************)
Newest == log[Len(log)]
HasField(dir, key, value) == [key |-> key, val |-> value] \in Fields(disk, Manifest(dir))
FieldSet(dir, key) == \E f \in Fields(disk, Manifest(dir)) : f.key = key
IsRootStep(e, op) == e.step.fn = "flow" /\ e.step.op = op /\ e.step.ws = ""
MemberRan(dir, script) ==
    \E i \in LogIdx :
        /\ log[i].step.dir = dir /\ log[i].step.op = "run" /\ log[i].step.key = script
        /\ log[i].step.ws # "" /\ log[i].result = "ok"
MemberProvisioned(dir) ==
    /\ Manifest(dir) \in DOMAIN disk
    /\ HasField(dir, "main", "dist/src/index.js")
    /\ MemberRan(dir, "lint") /\ MemberRan(dir, "build") /\ MemberRan(dir, "test")
FanOut(script) ==
    CASE script = "build" -> "npm run build -ws"
      [] script = "lint" -> "npm run lint -ws"
      [] script = "test" -> "npm run test -ws"
RootScripts == {"build", "lint", "test"}
RootScriptsSet == \A s \in RootScripts : HasField(Cwd, "scripts." \o s, FanOut(s))
RootRuns == {i \in LogIdx : IsRootStep(log[i], "run")}

\* C21: in Monorepo mode a completed run leaves two members, packages/lib and
\* packages/app, each with main = dist/src/index.js, and the root scripts build,
\* lint and test equal to `npm run <name> -ws`; the root scripts are set after
\* both members are provisioned and before any root build, lint or test runs.
C21_MonorepoEndState ==
    (isMonorepo /\ log # <<>>) =>
        /\ IsRootStep(Newest, "pkg set") =>
              /\ MemberProvisioned(libDir) /\ MemberProvisioned(appDir)
              /\ RootRuns = {}
        /\ IsRootStep(Newest, "run") =>
              /\ MemberProvisioned(libDir) /\ MemberProvisioned(appDir)
              /\ RootScriptsSet
        /\ Completed =>
              /\ MemberProvisioned(libDir) /\ MemberProvisioned(appDir)
              /\ RootScriptsSet
              /\ IsRootStep(Newest, "run") /\ Newest.step.key = "test"
              /\ Newest.result = "ok"

C21_Witness ==
    /\ Completed /\ isMonorepo /\ RootScriptsSet
    /\ HasField(libDir, "main", "dist/src/index.js")
    /\ HasField(appDir, "main", "dist/src/index.js")

\* the scope @foo of the examples, in the alphabet of the model
ScopeFoo == <<"@", "a">>
\* a completed Single run started as `create --yes --scope=@foo` in an empty directory
SingleFooRun ==
    /\ YES_ARG /\ ~MONOREPO_ARG /\ CREATE_WORKSPACE_ARG = "" /\ SCOPE_ARG = ScopeFoo
    /\ StartedEmpty /\ Completed /\ ~isMonorepo /\ ~isCreatingWorkspace
RootTsconfig == disk[File(Cwd, "tsconfig.json")]

\* C22: a Single run with --yes --scope=@foo in an empty directory whose commands
\* all succeed ends with the manifest fields type = module, scripts.build = tsc,
\* scripts.test = vitest run, main = dist/src/index.js, a license field only if
\* one was found, and tsconfig.json with outDir = dist, include = [src] and
\* paths["@foo/*"] = ["../*/src"].
C22_SingleEndState ==
    SingleFooRun =>
        /\ HasField(Cwd, "type", "module")
        /\ HasField(Cwd, "scripts.build", "tsc")
        /\ HasField(Cwd, "scripts.test", "vitest run")
        /\ HasField(Cwd, "main", "dist/src/index.js")
        /\ IF rootLicense = "" THEN ~FieldSet(Cwd, "license")
           ELSE HasField(Cwd, "license", rootLicense)
        /\ File(Cwd, "tsconfig.json") \in DOMAIN disk
        /\ RootTsconfig.outDir = <<"dist">>
        /\ RootTsconfig.include = <<"src">>
        /\ \A p \in RootTsconfig.paths :
              p.key = <<"@", "a", "/", "*">> => p.value = <<"../*/src">>
        /\ \E p \in RootTsconfig.paths : p.key = <<"@", "a", "/", "*">>

C22_Witness == SingleFooRun /\ rootLicense = "" /\ HasField(Cwd, "scripts.build", "tsc")

\* a run started as `create -y -m --scope=@foo` in an empty directory
MonorepoFooRun ==
    /\ YES_ARG /\ MONOREPO_ARG /\ CREATE_WORKSPACE_ARG = "" /\ SCOPE_ARG = ScopeFoo
    /\ StartedEmpty

\* C23: run with -y -m --scope=@foo in an empty directory, the script decides
\* for Monorepo mode with scope @foo and never shows one of its four questions;
\* every npm init it runs carries -y.
C23_NoPromptRun ==
    MonorepoFooRun =>
        /\ asked = <<>>
        /\ ModeDecided => isMonorepo /\ ~isCreatingWorkspace /\ createWorkspace = ""
        /\ pc \notin BeforeEnsure => scope = ScopeFoo
        /\ (log # <<>> /\ Newest.step.op = "init") =>
              Newest.step.yes /\ Newest.step.scope = ScopeFoo

C23_Witness == MonorepoFooRun /\ Completed /\ isMonorepo /\ scope = ScopeFoo

\* nothing has been written and no command has been started
Untouched ==
    /\ log = <<>> /\ disk = <<>> /\ ~child /\ promise = NoPromise
    /\ ensureCalls = 0 /\ todo = <<>>
ScopeRefused == exited /\ error = "Scope is required"

\* C24: the four decisions (empty check, workspace path, monorepo, scope) are
\* resolved before the first file write and the first runCommand; a required
\* scope answered with the empty text ends the run with nothing written and no
\* command started.
C24_DecisionsFirst ==
    /\ pc \in BeforeEnsure => Untouched
    /\ ScopeRefused =>
          /\ Untouched /\ pc = "ScopeResolve" /\ exitCode = UncaughtExitCode
          /\ isMonorepo \/ isCreatingWorkspace
          /\ asked # <<>> /\ asked[Len(asked)] = Asked("scope", FALSE, "", <<>>)

C24_Witness == ScopeRefused /\ isMonorepo /\ ~dirEmpty /\ WasAsked("empty")

(***************************************************************************)
(* copyFiles.                                                              *)
(***************************************************************************)
RegularFiles == {f \in DOMAIN listing : listing[f] = "file"}
CopiesIn(status) == {f \in DOMAIN copies : copies[f] = status}
BeginsWithDot(name) == Len(name) >= 3 /\ name[1] = "d" /\ name[2] = "o" /\ name[3] = "t"
\* the name with its leading token "dot" replaced by "."
Dotted(name) ==
    IF BeginsWithDot(name)
    THEN [i \in 1..(Len(name) - 2) |-> IF i = 1 THEN "." ELSE name[i + 2]]
    ELSE name

\* C25: copyFiles copies the regular files of the source directory and only
\* them, directories being skipped; a copied file keeps its name, except that a
\* leading "dot" becomes "."; when one copy fails the whole copyFiles fails and
\* the files already copied stay where they are.
C25_CopyFiles ==
    /\ DOMAIN copies = RegularFiles
    /\ DOMAIN target = {Dotted(f) : f \in CopiesIn("done")}
    /\ \A name \in DOMAIN target :
          target[name] \in CopiesIn("done") /\ Dotted(target[name]) = name
    /\ CopiesIn("failed") # {} <=> Newest.result = "failed"
    /\ Newest.result = "failed" => exited /\ exitCode = UncaughtExitCode
    /\ Newest.result = "ok" => CopiesIn("done") = RegularFiles

C25_Witness ==
    /\ exited /\ CopiesIn("failed") # {}
    /\ \E f \in CopiesIn("done") : BeginsWithDot(f) /\ Dotted(f) \in DOMAIN target
    /\ \E f \in DOMAIN listing : listing[f] = "dir"

\* C27: the file copies one copyFiles call has in flight write pairwise
\* distinct destination paths, whatever the source directory holds.
C27_DistinctDestinations ==
    \A f \in CopiesIn("pending") : \A g \in CopiesIn("pending") :
        f # g => Dotted(f) # Dotted(g)

(***************************************************************************)
(* One step at a time.                                                     *)
(***************************************************************************)
Settled(e) == e.result \in {"ok", "failed"}

\* C26: a run has at most one external command in flight, and a command or a
\* file step is started only after the step before it has completed.
C26_Sequential ==
    /\ child <=> (log # <<>> /\ Newest.result = "running")
    /\ child => IsCmd(Newest) /\ promise = Pending /\ todo # <<>> /\ Head(todo) = Newest.step
    /\ Len(log) >= 2 => Settled(log[Len(log) - 1])
    /\ (log # <<>> /\ ~IsCmd(Newest)) => Settled(Newest)

C26_Witness ==
    /\ child /\ Len(log) >= 2
    /\ ~IsCmd(log[Len(log) - 1]) /\ log[Len(log) - 1].result = "ok"

(***************************************************************************)
(* patchTsconfigJson applied to its own output.                            *)
(***************************************************************************)
PatchWritten ==
    log # <<>> /\ Newest.step.op = "patchTsconfigJson" /\ Newest.result = "ok"
\* the document the newest patch has written, and the one it was given
PatchOut == disk[File(Newest.step.dir, Newest.step.key)]
PatchIn == contents
PatchKey == Newest.step.scope \o <<"/", "*">>
Edited(p) == Newest.step.scope # <<>> /\ p.key = PatchKey

\* C28: patchTsconfigJson leaves outDir = dist and include = [src] (unless the
\* setup is skipped) and paths[<scope>/*] = [../*/src] (if there is a scope),
\* whatever was there before; every other key keeps its value; applied to its
\* own output with the same arguments it returns that document unchanged.
C28_PatchIdempotent ==
    PatchWritten =>
        /\ IF Newest.step.val = "skipSetup=true"
           THEN PatchOut.outDir = PatchIn.outDir /\ PatchOut.include = PatchIn.include
           ELSE PatchOut.outDir = <<"dist">> /\ PatchOut.include = <<"src">>
        /\ Newest.step.scope # <<>> =>
              {p.value : p \in {q \in PatchOut.paths : Edited(q)}} = {<<"../*/src">>}
        /\ {p \in PatchOut.paths : ~Edited(p)} = {p \in PatchIn.paths : ~Edited(p)}
        /\ PatchOut.extends = PatchIn.extends
        /\ PatchRuns >= 2 => PatchOut = PatchIn

C28_Witness ==
    /\ PatchWritten /\ PatchRuns = 2 /\ PatchOut = PatchIn
    /\ Newest.step.scope # <<>> /\ Newest.step.val = "skipSetup=false"
    /\ PatchOut.extends # "" /\ \E p \in PatchOut.paths : ~Edited(p)

(***************************************************************************)
(* The root block.                                                         *)
(***************************************************************************)
IsRoot(e) == e.step.fn = "root"
RootLog == SelectSeq(log, IsRoot)
\* the place of a step in the root block: the copy, then the three installs
RootRank(st) ==
    CASE st.op = "copyFiles" -> 1
      [] st.val = "eslint plugins and configs" -> 2
      [] st.val = "prettier" -> 3
      [] st.val = "@sindresorhus/tsconfig" -> 4
Previous == log[Len(log) - 1]
IsEnsure(e) == e.step.fn = "checkPackageJson"

Confirmed == \E i \in AskedIdx : asked[i].q = "empty" /\ asked[i].yes

\* C30: a Single or Monorepo run that has started a command or written a file
\* in a working directory that was not empty at its start has asked the
\* non-empty-directory confirmation and got yes for an answer, also when a
\* workspace flag was given and ignored for lack of a package.json.
C30_MutationConfirmed ==
    (log # <<>> /\ ~isCreatingWorkspace /\ ~StartedEmpty) => Confirmed

(***************************************************************************)
(* The required scope.                                                     *)
(***************************************************************************)
ScopeRequired == isMonorepo \/ isCreatingWorkspace

\* C31: when the scope is required (Monorepo mode or a workspace addition) and
\* getScope has returned, the scope is not empty and begins with "@", whatever
\* was typed at the prompt; checkPackageJson is never reached with a required
\* scope that is empty.
C31_RequiredScopeNonEmpty ==
    (ScopeRequired /\ pc \notin BeforeEnsure) => (scope # <<>> /\ StartsWithAt(scope))

====
